---- MODULE Spec2Model ----
(***************************************************************************)
(* StockTracker: the transition state store (stockcheck/state.py), the     *)
(* stock checker service and its continuous scheduler                      *)
(* (stockcheck/runner.py), with the retailer adapters and the alert sink   *)
(* as their environment.                                                   *)
(***************************************************************************)
EXTENDS Integers, Sequences, FiniteSets, TLC

(***************************************************************************)
(* Data model (stockcheck/models.py)                                       *)
(***************************************************************************)
IN_STOCK == "in_stock"
OUT_OF_STOCK == "out_of_stock"
UNKNOWN == "unknown"

StockStatus == {IN_STOCK, OUT_OF_STOCK, UNKNOWN}

\* Python's None: an absent row, a missing optional value.
None == "None"

\* WatchItem.item_key: f"{identifier.type}:{identifier.value}".  The type is
\* one of two colon-free literals, so the pair determines the string.
item_key(item) == <<item.type, item.value>>

(***************************************************************************)
(* Bounds                                                                  *)
(***************************************************************************)
\* Longest watchlist of a configuration.
MaxItems == 2

\* Most stores a store directory returns from find_stores_near.
MaxStores == 1
\* The longest store list of the runs that are about the order of the stores.
MaxFound == 2
\* The longest fetched text, in pieces.
MaxText == 3
\* The most __exit__ calls on one adapter.
MaxExits == 2
\* The most candidates one retailer's discovery returns.
MaxLinks == 2

\* Last clock value the model follows, in seconds.
MaxTime == 130

\* Most rows of the table when dump_status reads it.
MaxRows == 3

(***************************************************************************)
(* Configurations and the adapters' environment                            *)
(***************************************************************************)
\* The retailers of the model: two page-scrape adapters and the API-backed one.
\* _adapter_factories registers bestbuy although WatchItem.retailer's Literal
\* (models.py:32) does not list it; it stands here for any adapter whose
\* find_stores_near performs I/O and can raise (RetailerAdapter protocol).
Retailers == {"target", "gamestop", "bestbuy"}

\* Adapters that are context managers (PlaywrightRetailerAdapter).
PageScrape == {"target", "gamestop"}

\* Watched items: a url item and a sku item for a url-only adapter, a url
\* item for the other one, a sku item for the sku-only adapter.
WatchItems ==
    { [retailer |-> "target", label |-> "t-url", type |-> "url", value |-> "x"],
      [retailer |-> "target", label |-> "t-sku", type |-> "sku", value |-> "x"],
      [retailer |-> "gamestop", label |-> "g-url", type |-> "url", value |-> "z"],
      [retailer |-> "bestbuy", label |-> "b-sku", type |-> "sku", value |-> "y"] }

Watchlists == UNION { [1..n -> WatchItems] : n \in 0..MaxItems }

\* LocationConfig, by which of lat, lon and zip are set: coordinates together
\* with a zip, a zip alone, half a coordinate pair, nothing.
Locations ==
    { [lat |-> TRUE, lon |-> TRUE, zip |-> TRUE],
      [lat |-> FALSE, lon |-> FALSE, zip |-> TRUE],
      [lat |-> TRUE, lon |-> FALSE, zip |-> FALSE],
      [lat |-> FALSE, lon |-> FALSE, zip |-> FALSE] }

NoLocation == [lat |-> FALSE, lon |-> FALSE, zip |-> FALSE]

\* lat is not None and lon is not None.
HasCoordinates(location) == location.lat /\ location.lon

\* Store ids of the store directory.
StoreIdNames == <<"s1", "s2", "s3", "s4">>

DirectoryStoreIds == { StoreIdNames[n] : n \in 1..MaxStores }

\* PlaywrightRetailerAdapter.find_stores_near: one synthetic store; the
\* service never passes a zip_code to the adapter.
LocalContextStore == "local-context-unknown"

StoreIds == DirectoryStoreIds \cup {LocalContextStore}

\* Lists of distinct stores a directory lookup may return, in any order.
StoreLists ==
    UNION { { l \in [1..n -> DirectoryStoreIds] :
                \A i, j \in 1..n : i # j => l[i] # l[j] } : n \in 0..MaxStores }

\* The store lists of the runs that are about the order of the stores.
FoundStoreIds == { StoreIdNames[n] : n \in 1..MaxFound }

FoundLists ==
    UNION { { l \in [1..n -> FoundStoreIds] :
                \A i, j \in 1..n : i # j => l[i] # l[j] } : n \in 0..MaxFound }

\* Store.name as the adapter builds it from the retailer and the store.
store_name(retailer, store_id) == <<retailer, store_id>>

\* The key (retailer, item_key, store_id) of a stock state row.
KeyOf(item, store_id) == <<item.retailer, item_key(item), store_id>>

Keys ==
    { KeyOf(item, sid) : item \in WatchItems, sid \in StoreIds }

FoundKeys ==
    { KeyOf(item, sid) : item \in WatchItems,
                         sid \in FoundStoreIds \cup {LocalContextStore} }

(***************************************************************************)
(* Concurrent callers of the state store                                   *)
(***************************************************************************)
\* Two callers (threads or processes) sharing one backing file.
Callers == {"a", "b"}

\* The keys (retailer, item_key, store_id) the concurrent callers use.
StoreKeys ==
    { <<"target", <<"url", "x">>, LocalContextStore>>,
      <<"bestbuy", <<"sku", "y">>, "s1">> }

(***************************************************************************)
(* State                                                                   *)
(***************************************************************************)
VARIABLES
    db,         \* table stock_state: its rows (key, status) in rowid order
    written,    \* history: per key the status last written, None if never
    wlock,      \* the caller holding the write lock of the database file
    dump,       \* the list dump_status returned, until the next update
    callers,    \* per caller: its position inside update_status
    pc,         \* position of the service inside run_once
    watch,      \* config.watchlist of the running service
    sink,       \* the alert sink _build_alert_sink chose
    ridx,       \* position in by_retailer
    iidx,       \* position in the retailer's items
    sidx,       \* position in the stores of _process_item
    found,      \* stores each retailer's find_stores_near returned
    stack,      \* adapters entered on the ExitStack
    sessions,   \* per adapter of the run: the sub-resources it holds open
    leaked,     \* sub-resources left open that no adapter will close
    scope,      \* history: adapters the run entered, adapters it exited
    records,    \* the run's CheckRecords
    snapshot,   \* content of status_json, and whether the file exists
    obs,        \* status of the pair whose alert is being sent
    ev,         \* history: the most recent state update of a run
    outcome,    \* how the last run_once ended
    error,      \* the fault that left the last run_once, None if none did
    config,     \* the AppConfig the service was built from
    undelivered, \* history: keys in stock whose alert delivery failed
    invoked,    \* history: the adapter and store calls of the run
    spc,        \* position of the service inside run_forever
    clock,      \* time.time(), in seconds
    now,        \* run_forever's now of the current pass
    schedule,   \* run_forever's schedule: (retailer, item_key) -> next due time
    widx,       \* position of the pass in the watchlist
    triggered,  \* run_forever's triggered of the current pass
    ranAt,      \* history: per schedule key, now of the pass that last ran it
    started,    \* history: per schedule key, the clock when its last run began
    firstPass,  \* history: the watchlist positions run in the first pass
    classifier, \* the adapter whose classification is exercised
    content,    \* the text the adapter fetched
    classified, \* the status the adapter returned for it, None before
    payload,    \* the configuration document handed to AppConfig.model_validate
    accepted,   \* the AppConfig validation built from it, or its rejection
    partial,    \* the per-item copy run_once_for_item built last
    scraper,    \* a page-scrape adapter: its _playwright, _browser, _context
    teardown,   \* history: whether it was entered, what its last __exit__ did
    visit,      \* an adapter, an item and what the adapter's calls did for it
    alerts,     \* history: dry_run and config.alerts.discord_webhook of the run
    discovery,  \* a call of ProductDiscoveryService.discover
    tickets     \* a call of TicketSearchService.search

runVars == <<pc, watch, sink, ridx, iidx, sidx, found, stack, sessions,
             leaked, scope, records, snapshot, obs, ev, outcome, error, config,
             undelivered, invoked>>

schedVars == <<spc, clock, now, schedule, widx, triggered, ranAt, started,
               firstPass>>

textVars == <<classifier, content, classified>>

confVars == <<payload, accepted, partial>>

sessVars == <<scraper, teardown, visit>>

unitVars == <<textVars, confVars, sessVars, alerts, discovery, tickets>>

vars == <<db, written, wlock, dump, callers, runVars, schedVars, unitVars>>

(***************************************************************************)
(* StateStore (stockcheck/state.py)                                        *)
(***************************************************************************)
\* The positions of the rows WHERE retailer = ? AND item_key = ? AND
\* store_id = ?.
RowsOf(d, key) == { i \in 1..Len(d) : d[i].key = key }

\* SELECT status ... WHERE key; None when fetchone() finds no row.
get_status(d, key) ==
    IF RowsOf(d, key) = {} THEN None
    ELSE d[CHOOSE i \in RowsOf(d, key) : \A j \in RowsOf(d, key) : i <= j].status

\* A store whose insert leaves an existing row as it is.
Upsert_KeepsFirst(d, key, status) ==
    IF RowsOf(d, key) = {}
    THEN Append(d, [key |-> key, status |-> status])
    ELSE d

\* A store that inserts a new row whether or not the key has one.
Upsert_InsertOnly(d, key, status) ==
    Append(d, [key |-> key, status |-> status])

\* INSERT ... ON CONFLICT(retailer, item_key, store_id) DO UPDATE SET status:
\* a new row for a new key, else the key's row keeps its place and takes the
\* new status.
Upsert(d, key, status) ==
    IF RowsOf(d, key) = {}
    THEN Append(d, [key |-> key, status |-> status])
    ELSE [i \in 1..Len(d) |->
            IF d[i].key = key THEN [d[i] EXCEPT !.status = status] ELSE d[i]]

\* The strings of the keys in ascending byte order, the order of SQLite's
\* default collation of TEXT columns.
StringOrder ==
    <<"bestbuy", "gamestop", "local-context-unknown", "s1", "s2", "s3", "s4",
      "sku", "target", "url", "x", "y", "z">>

Rank(str) == CHOOSE i \in 1..Len(StringOrder) : StringOrder[i] = str

\* The columns of a key: retailer, item_key as type and value, store_id.
Columns(key) == <<key[1], key[2][1], key[2][2], key[3]>>

\* ORDER BY retailer, item_key, store_id: a key sorts before another.
KeyBefore(a, b) ==
    \E i \in 1..Len(Columns(a)) :
        /\ Rank(Columns(a)[i]) < Rank(Columns(b)[i])
        /\ \A j \in 1..(i - 1) : Columns(a)[j] = Columns(b)[j]

RECURSIVE InsertRow(_, _)
InsertRow(row, sorted) ==
    IF sorted = <<>> THEN <<row>>
    ELSE IF KeyBefore(Head(sorted).key, row.key)
         THEN <<Head(sorted)>> \o InsertRow(row, Tail(sorted))
         ELSE <<row>> \o sorted

RECURSIVE SortRows(_)
SortRows(d) == IF d = <<>> THEN <<>> ELSE InsertRow(Head(d), SortRows(Tail(d)))

\* A store whose dump has no ORDER BY: the rows in rowid order.
dump_status_RowidOrder(d) == d

\* dump_status: SELECT ... FROM stock_state ORDER BY retailer, item_key,
\* store_id, every row as a dict.
dump_status(d) == SortRows(d)

NoDump == [done |-> FALSE, rows |-> <<>>]

\* A store whose schema creation replaces an existing table.
init_db_Recreates(d) == <<>>

\* _init_db: CREATE TABLE IF NOT EXISTS; an existing table keeps its rows.
init_db(d) == d

\* A store for which a first observation is no change.
changed_AbsentIsNoChange(previous, status) ==
    previous # None /\ previous # status

\* changed = previous != status; previous is None for an absent row.
changed(previous, status) == previous # status

\* A store that alerts on every change, whatever the new status.
TransitionResult_AlertOnAnyChange(previous, status) ==
    [changed |-> changed(previous, status),
     should_alert |-> changed(previous, status),
     previous_status |-> previous,
     current_status |-> status]

\* The TransitionResult update_status builds from the status it read.
TransitionResult(previous, status) ==
    [changed |-> changed(previous, status),
     should_alert |-> changed(previous, status) /\ status = IN_STOCK,
     previous_status |-> previous,
     current_status |-> status]

NoResult == [changed |-> FALSE, should_alert |-> FALSE,
             previous_status |-> None, current_status |-> None]

IdleCaller ==
    [pc |-> "idle", key |-> None, status |-> None, previous |-> None,
     result |-> NoResult, before |-> None, after |-> None, last |-> None,
     overlap |-> FALSE, sameKey |-> FALSE]

Active(c) == callers[c].pc \in {"read", "write", "commit"}

\* A caller enters update_status(key, status).  overlap is history: whether
\* another call is in progress during this one; sameKey is history: whether
\* such a call is for the same key.
CallUpdate(c, key, status) ==
    /\ callers[c].pc \in {"idle", "opened", "returned", "failed"}
    /\ LET others == {o \in Callers \ {c} : Active(o)}
       IN  callers' = [o \in Callers |->
                IF o = c
                THEN [IdleCaller EXCEPT
                        !.pc = "read", !.key = key, !.status = status,
                        !.overlap = (others # {}),
                        !.sameKey = (\E x \in others : callers[x].key = key)]
                ELSE IF o \in others
                     THEN [callers[o] EXCEPT
                            !.overlap = TRUE,
                            !.sameKey = (@ \/ callers[o].key = key)]
                     ELSE callers[o]]
    /\ UNCHANGED <<db, written, wlock, dump, runVars, schedVars, unitVars>>

\* previous = self.get_status(...): its own connection, closed at once.
ReadPrevious(c) ==
    /\ callers[c].pc = "read"
    /\ callers' = [callers EXCEPT ![c].pc = "write",
                                  ![c].previous = get_status(db, callers[c].key)]
    /\ UNCHANGED <<db, written, wlock, dump, runVars, schedVars, unitVars>>

\* conn.execute(INSERT ...) on the second connection: the statement opens a
\* write transaction, which takes the write lock of the database file; the
\* file has one such lock, whatever the rows the writers touch.
LockWrite(c) ==
    /\ callers[c].pc = "write"
    /\ wlock = None
    /\ wlock' = c
    /\ callers' = [callers EXCEPT ![c].pc = "commit"]
    /\ UNCHANGED <<db, written, dump, runVars, schedVars, unitVars>>

\* The statement waits while another connection holds the write lock and
\* raises sqlite3.OperationalError (database is locked) once the
\* connection's default timeout is over; the exception leaves update_status.
WriteBusy(c) ==
    /\ callers[c].pc = "write"
    /\ wlock \in Callers \ {c}
    /\ callers' = [callers EXCEPT ![c].pc = "failed"]
    /\ UNCHANGED <<db, written, wlock, dump, runVars, schedVars, unitVars>>

\* The upsert takes effect with conn.commit(), then comes the returned
\* TransitionResult, computed from the status read earlier.  before and
\* after are history: what get_status returns for the key just before and
\* just after this write; last is history: the status the preceding update
\* of the key applied.
WriteStatus(c) ==
    /\ callers[c].pc = "commit"
    /\ wlock' = None
    /\ db' = Upsert(db, callers[c].key, callers[c].status)
    /\ written' = [written EXCEPT ![callers[c].key] = callers[c].status]
    /\ callers' = [callers EXCEPT
            ![c].pc = "returned",
            ![c].before = get_status(db, callers[c].key),
            ![c].last = written[callers[c].key],
            ![c].after = get_status(db', callers[c].key),
            ![c].result = TransitionResult(callers[c].previous, callers[c].status)]
    /\ UNCHANGED <<dump, runVars, schedVars, unitVars>>

\* A caller constructs a new StateStore on the backing file: _init_db runs
\* again on the existing table.
OpenStore(c) ==
    /\ callers[c].pc \in {"idle", "returned", "failed"}
    /\ db' = init_db(db)
    /\ callers' = [callers EXCEPT ![c] = [IdleCaller EXCEPT !.pc = "opened"]]
    /\ UNCHANGED <<written, wlock, dump, runVars, schedVars, unitVars>>

\* status_json before any run has written it.
NoSnapshot == [exists |-> FALSE, rows |-> <<>>]

NoObs == [status |-> None]

\* The key of no row: no state update has been made.
NoKey == <<>>

NoEvent == [key |-> NoKey, before |-> None, status |-> None, check |-> None,
            update |-> None, send |-> "none"]

\* The sub-resources of a page-scrape adapter's session, in the order
\* __enter__ starts them: the automation driver, the browser, the context.
SubResources == <<"playwright", "browser", "context">>

NoSessions == [r \in Retailers |-> {}]

NoScope == [entered |-> <<>>, exited |-> <<>>, geocoder |-> "none"]

\* No call of find_stores_near, check_item_in_store or update_status yet.
NoCalls == [finds |-> <<>>, checks |-> <<>>, updates |-> <<>>]

\* No service is running: the state after StateStore(config.state_db) has
\* created an empty table and before any run.
InitRun ==
    /\ pc = "idle"
    /\ watch = <<>>
    /\ sink = None
    /\ ridx = 1 /\ iidx = 1 /\ sidx = 1
    /\ found = [r \in Retailers |-> <<>>]
    /\ stack = <<>>
    /\ sessions = NoSessions
    /\ leaked = {}
    /\ scope = NoScope
    /\ records = <<>>
    /\ snapshot = NoSnapshot
    /\ obs = NoObs
    /\ ev = NoEvent
    /\ outcome = "none"
    /\ error = None
    /\ undelivered = {}
    /\ invoked = NoCalls

\* The schedule key of run_forever: (item.retailer, item.item_key).
ScheduleKey(item) == <<item.retailer, item_key(item)>>

ScheduleKeys == { ScheduleKey(item) : item \in WatchItems }

\* The first pass of run_forever, with no item run yet.
NoPass == [open |-> TRUE, ran |-> <<>>]

\* run_forever has not been called.
\* A float as validation sees it: a number or NaN.
Float(n) == [nan |-> FALSE, value |-> n]

NaN == [nan |-> TRUE, value |-> 0]

\* No configuration document has been validated.
NoConfig ==
    [state |-> "none", poll_seconds |-> 0, radius_miles |-> Float(0),
     watchlist |-> <<>>]

InitTextOff ==
    /\ classifier = None
    /\ content = <<>>
    /\ classified = None

InitConfOff ==
    /\ payload = NoConfig
    /\ accepted = NoConfig
    /\ partial = NoConfig

\* PlaywrightRetailerAdapter.__init__: nothing is started.
NewAdapter(name, zip_code) ==
    [name |-> name, zip_code |-> zip_code,
     playwright |-> None, browser |-> None, context |-> None]

NoTeardown == [entered |-> "never", exits |-> 0, made |-> <<>>, raised |-> FALSE]

\* A URL: what precedes the query, and the query's (name, value) pairs.
NoUrl == [path |-> "", query |-> <<>>]

\* No adapter call is exercised on its own.
NoVisit ==
    [adapter |-> [name |-> None, zip_code |-> None, context |-> FALSE],
     item |-> [retailer |-> None, label |-> None, type |-> None, value |-> NoUrl],
     looked |-> FALSE, stores |-> <<>>,
     checked |-> FALSE, effects |-> <<>>, result |-> None]

InitSessOff ==
    /\ scraper = NewAdapter(None, FALSE)
    /\ teardown = NoTeardown
    /\ visit = NoVisit

\* The alert settings of the runs are not recorded.
NoAlerts == [dry_run |-> FALSE, webhook |-> FALSE]

\* discover has not been called.
NoDiscovery ==
    [state |-> "none", keyword |-> "", retailers |-> <<>>, idx |-> 1,
     results |-> <<>>, errors |-> <<>>, outs |-> <<>>, candidates |-> <<>>]

\* search has not been called.  Texts are sequences of words.
NoTickets ==
    [state |-> "none", query |-> <<>>, venue_query |-> <<>>,
     section_query |-> <<>>, event_id |-> <<>>, include |-> {}, idx |-> 1,
     calls |-> <<>>, results |-> <<>>, returned |-> <<>>, errors |-> <<>>]

\* No adapter or validation is exercised on its own.
InitUnitsOff ==
    /\ InitTextOff
    /\ InitConfOff
    /\ InitSessOff
    /\ alerts = NoAlerts
    /\ discovery = NoDiscovery
    /\ tickets = NoTickets

InitSchedOff ==
    /\ spc = "off"
    /\ clock = 2
    /\ now = 0
    /\ schedule = [k \in ScheduleKeys |-> 0]
    /\ widx = 1
    /\ triggered = FALSE
    /\ ranAt = [k \in ScheduleKeys |-> 0]
    /\ started = [k \in ScheduleKeys |-> 0]
    /\ firstPass = NoPass

\* The store, the service and the scheduler at rest.
InitIdle ==
    /\ db = <<>>
    /\ written = [k \in Keys |-> None]
    /\ wlock = None
    /\ dump = NoDump
    /\ callers = [c \in Callers |-> IdleCaller]
    /\ InitRun
    /\ InitSchedOff
    /\ config = [watchlist |-> <<>>, location |-> NoLocation, poll_seconds |-> 0]

idleVars == <<db, written, wlock, dump, callers, runVars, schedVars>>

InitStore ==
    /\ InitIdle
    /\ InitUnitsOff

NextStore ==
    \E c \in Callers :
        \/ \E key \in StoreKeys, status \in StockStatus : CallUpdate(c, key, status)
        \/ ReadPrevious(c)
        \/ LockWrite(c)
        \/ WriteBusy(c)
        \/ WriteStatus(c)
        \/ OpenStore(c)

SpecStore == InitStore /\ [][NextStore]_vars

\* A caller that has returned from update_status and has not called again.
Returned(c) == callers[c].pc = "returned"

\* A call during which no other call was in progress.
Alone(c) == Returned(c) /\ ~callers[c].overlap

(***************************************************************************)
(* Claims about the state store                                            *)
(***************************************************************************)
\* C1: for update_status calls applied one after another to a key, a call
\* returns should_alert = TRUE iff its new status is in_stock and the status
\* recorded for the key just before the call is not in_stock (an absent row
\* is not in_stock); and should_alert = changed AND new status = in_stock.
C1_AlertIffTransitionToInStock ==
    \A c \in Callers :
        Alone(c) =>
            /\ callers[c].result.should_alert
                    = (callers[c].status = IN_STOCK /\ callers[c].before # IN_STOCK)
            /\ callers[c].result.should_alert
                    = (callers[c].result.changed /\ callers[c].status = IN_STOCK)

\* C1 happens: an out_of_stock row is updated to in_stock and alerts, and a
\* later call re-observes in_stock without alerting.
C1_Witness ==
    \E c, o \in Callers :
        /\ c # o /\ Alone(c) /\ Alone(o)
        /\ callers[c].key = callers[o].key
        /\ callers[c].before = OUT_OF_STOCK /\ callers[c].status = IN_STOCK
        /\ callers[c].result.should_alert
        /\ callers[o].before = IN_STOCK /\ callers[o].status = IN_STOCK
        /\ ~callers[o].result.should_alert

\* C3: update_status is atomic per key: every call returns as
\* previous_status the status its write replaced, whatever the interleaving
\* of the callers' read and write steps (no lost update).
C3_AtomicPerKey ==
    \A c \in Callers :
        Returned(c) => callers[c].result.previous_status = callers[c].before

\* C4: of two overlapping calls that record in_stock for the same key, at
\* most one returns should_alert = TRUE.
C4_AtMostOneAlert ==
    \A c, o \in Callers :
        ( /\ c # o /\ Returned(c) /\ Returned(o)
          /\ callers[c].overlap /\ callers[o].overlap
          /\ callers[c].key = callers[o].key
          /\ callers[c].status = IN_STOCK /\ callers[o].status = IN_STOCK )
        => ~(callers[c].result.should_alert /\ callers[o].result.should_alert)

\* C17: update_status(key, s), called while no other call is in progress,
\* returns previous_status = what get_status(key) returned just before,
\* current_status = s and changed = (previous_status differs from s), an
\* absent row being a change for every s; right afterwards get_status(key)
\* returns s.
C17_UpdateReturnsTransition ==
    \A c \in Callers :
        Alone(c) =>
            /\ callers[c].result.previous_status = callers[c].before
            /\ callers[c].result.current_status = callers[c].status
            /\ callers[c].result.changed = (callers[c].before # callers[c].status)
            /\ callers[c].before = None => callers[c].result.changed
            /\ callers[c].after = callers[c].status

\* C17 happens: a first observation that is not in_stock returned
\* changed = TRUE with no previous status.
C17_Witness ==
    \E c \in Callers :
        /\ Alone(c)
        /\ callers[c].before = None
        /\ callers[c].status = OUT_OF_STOCK
        /\ callers[c].result.changed
        /\ callers[c].result.previous_status = None

\* C18: re-applying a status is idempotent: a call of update_status, with
\* no other call in progress, that applies the status the preceding update
\* of the key applied returns changed = FALSE and should_alert = FALSE, and
\* the recorded status stays that status.
C18_IdempotentReobservation ==
    \A c \in Callers :
        (Alone(c) /\ callers[c].last = callers[c].status) =>
            /\ ~callers[c].result.changed
            /\ ~callers[c].result.should_alert
            /\ callers[c].after = callers[c].status

\* C18 happens: unknown was applied to a key that held another status or
\* none, and then applied again.
C18_Witness ==
    \E c, o \in Callers :
        /\ c # o /\ Alone(c) /\ Alone(o)
        /\ callers[c].key = callers[o].key
        /\ callers[c].status = UNKNOWN /\ callers[o].status = UNKNOWN
        /\ callers[c].last # UNKNOWN /\ callers[c].result.changed
        /\ callers[o].last = UNKNOWN /\ ~callers[o].result.changed

\* C19: callers of update_status on different keys do not interfere: a call
\* that only calls for other keys overlap returns the TransitionResult, and
\* leaves the row, of a call running alone, and it never waits for another
\* caller nor fails because of one.
C19_DifferentKeysIndependent ==
    \A c \in Callers :
        ~callers[c].sameKey =>
            /\ Returned(c) =>
                    /\ callers[c].result =
                            TransitionResult(callers[c].before, callers[c].status)
                    /\ callers[c].after = callers[c].status
            /\ callers[c].pc = "write" => wlock = None
            /\ callers[c].pc # "failed"

\* update_status(key, status) of a single caller, from its read to its
\* return.
UpdateRow(key, status) ==
    /\ RowsOf(db, key) # {} \/ Len(db) < MaxRows
    /\ db' = Upsert(db, key, status)
    /\ written' = [written EXCEPT ![key] = status]
    /\ dump' = NoDump
    /\ UNCHANGED <<wlock, callers, runVars, schedVars, unitVars>>

\* A caller reads the whole table with dump_status.
DumpStatus ==
    /\ dump' = [done |-> TRUE, rows |-> dump_status(db)]
    /\ UNCHANGED <<db, written, wlock, callers, runVars, schedVars, unitVars>>

NextDump ==
    \/ \E key \in Keys, status \in StockStatus : UpdateRow(key, status)
    \/ DumpStatus

SpecDump == InitStore /\ [][NextDump]_vars

\* C20: dump_status returns every row of the table exactly once, sorted by
\* (retailer, item_key, store_id), whatever the order in which the keys were
\* inserted or updated.
C20_DumpSorted ==
    dump.done =>
        /\ Len(dump.rows) = Len(db)
        /\ \A i \in 1..Len(db) :
                Cardinality({ j \in 1..Len(dump.rows) : dump.rows[j] = db[i] }) = 1
        /\ \A i \in 1..(Len(dump.rows) - 1) :
                KeyBefore(dump.rows[i].key, dump.rows[i + 1].key)

\* C20 happens: a table whose rows were inserted in descending key order was
\* dumped.
C20_Witness ==
    /\ dump.done
    /\ Len(db) = MaxRows
    /\ \A i \in 1..(Len(db) - 1) : KeyBefore(db[i + 1].key, db[i].key)

\* C15: a newly constructed StateStore on the same backing file leaves
\* every row as it is: through any sequence of updates and reopenings,
\* get_status returns for every key the status last written to it, and
\* nothing for a key never written.
C15_DurableAcrossReopen ==
    \A k \in Keys : get_status(db, k) = written[k]

\* C15 happens: a caller has reopened the store while it held a row.
C15_Witness ==
    \E c \in Callers :
        /\ callers[c].pc = "opened"
        /\ \E k \in StoreKeys : written[k] = IN_STOCK /\ get_status(db, k) = IN_STOCK

\* C16: the table holds exactly one row for each key that has been updated
\* at least once, with the status of the key's most recent update, and no
\* row for any other key; as an updated key stays updated, no row is ever
\* deleted.
C16_OneRowPerKey ==
    /\ \A k \in Keys :
            Cardinality(RowsOf(db, k)) = IF written[k] = None THEN 0 ELSE 1
    /\ \A i \in 1..Len(db) :
            db[i].key \in Keys /\ db[i].status = written[db[i].key]

\* C16 happens: a key's row was overwritten with another status while the
\* table also held a row of another key.
C16_Witness ==
    /\ Len(db) > 1
    /\ \E c \in Callers :
            /\ Returned(c)
            /\ callers[c].before \in StockStatus
            /\ callers[c].before # callers[c].status

(***************************************************************************)
(* StockCheckerService.run_once (stockcheck/runner.py)                     *)
(***************************************************************************)
\* A service that posts to the webhook whenever one is configured.
build_alert_sink_WebhookWins(dry_run, webhook) ==
    IF webhook THEN "DiscordWebhookAlertSink" ELSE "DryRunAlertSink"

\* _build_alert_sink: dry_run wins over a configured webhook.
build_alert_sink(dry_run, webhook) ==
    IF dry_run THEN "DryRunAlertSink"
    ELSE IF webhook THEN "DiscordWebhookAlertSink"
    ELSE "DryRunAlertSink"

\* The results send may have on a sink: DryRunAlertSink only logs,
\* DiscordWebhookAlertSink raises on a failed POST.
SendResults(snk) ==
    IF snk = "DiscordWebhookAlertSink" THEN {"sent", "failed"} ELSE {"sent"}

\* A service that geocodes the zip whenever one is configured.
uses_geocoder_WheneverZip(location) == location.zip

\* _resolve_lat_lon calls ZipGeocoder().geocode_zip only when the
\* coordinates are incomplete and a zip is configured.
uses_geocoder(location) == ~HasCoordinates(location) /\ location.zip

\* A location _resolve_lat_lon can resolve: coordinates or a zip.
resolvable(location) == HasCoordinates(location) \/ location.zip

\* A service that takes a configuration without any location as resolved.
resolve_lat_lon_MissingAccepted(location, geocodes) ==
    IF uses_geocoder(location) THEN (IF geocodes THEN "resolved" ELSE "raise")
    ELSE "resolved"

\* _resolve_lat_lon: explicit coordinates, else the geocoded zip, else
\* ValueError; a geocoder failure (GeocoderError) propagates.
resolve_lat_lon(location, geocodes) ==
    IF HasCoordinates(location) THEN "resolved"
    ELSE IF uses_geocoder(location)
         THEN (IF geocodes THEN "resolved" ELSE "raise")
    ELSE "raise"

\* by_retailer's keys: the retailers of the watchlist in the order of their
\* first occurrence (dict insertion order).
RECURSIVE RetailerOrder(_)
RetailerOrder(w) ==
    IF w = <<>> THEN <<>>
    ELSE LET first == w[1].retailer
         IN  <<first>> \o SelectSeq(RetailerOrder(Tail(w)), LAMBDA r : r # first)

\* by_retailer[retailer]: the retailer's items in watchlist order.
ItemsOf(w, retailer) == SelectSeq(w, LAMBDA item : item.retailer = retailer)

\* The adapter's identifier test: the page-scrape adapters require a url
\* identifier, the Best Buy adapter a sku identifier.
IdentifierMismatch(item) ==
    IF item.retailer \in PageScrape THEN item.type # "url" ELSE item.type # "sku"

\* What check_item_in_store may do for an item: return a status or raise.
CheckResults(item) ==
    IF IdentifierMismatch(item) THEN {"mismatch", "fault"}
    ELSE StockStatus \cup {"fault"}

\* What find_stores_near may do: the page-scrape adapters build one synthetic
\* store, the store directory answers with a list of stores or raises.
FindResultsOver(retailer, lists) ==
    IF retailer \in PageScrape
    THEN {[raises |-> FALSE, stores |-> <<LocalContextStore>>]}
    ELSE { [raises |-> FALSE, stores |-> l] : l \in lists }
         \cup {[raises |-> TRUE, stores |-> <<>>]}

FindResults(retailer) == FindResultsOver(retailer, StoreLists)

\* A service whose per-check boundary lets an identifier mismatch escape.
check_boundary_MismatchEscapes(raw) ==
    IF raw = "mismatch" THEN "raise"
    ELSE IF raw = "fault" THEN UNKNOWN
    ELSE raw

\* try: adapter.check_item_in_store(...) except Exception: status = UNKNOWN.
check_boundary(raw) ==
    IF raw \in {"mismatch", "fault"} THEN UNKNOWN ELSE raw

\* A service that lets a failed alert delivery escape.
send_boundary_FailureEscapes(result) ==
    IF result = "failed" THEN "raise" ELSE "continue"

\* try: self.alert_sink.send(message) except Exception: logged.
send_boundary(result) == "continue"

\* A service that takes the update back when the delivery failed, so that
\* the next in_stock observation alerts again.
after_send_RollsBack(d, key, before, result) ==
    IF result # "failed" THEN d
    ELSE IF before = None THEN SelectSeq(d, LAMBDA row : row.key # key)
    ELSE Upsert(d, key, before)

\* except Exception: LOG.exception("alert delivery failed"): the handler
\* only logs, the row update_status committed before the send stays.
after_send(d, key, before, result) == d

\* A service that logs a failed state update and goes on.
state_boundary_FaultSwallowed(store_ok) == "continue"

\* transition = self.state.update_status(...): no try block around it, so
\* an exception of the store leaves _process_item and run_once.
state_boundary(store_ok) == IF store_ok THEN "continue" ELSE "raise"

\* A service that alerts on every change of status.
ShouldSend_OnAnyChange(transition) == transition.changed

\* if transition.should_alert: send.
ShouldSend(transition) == transition.should_alert

\* The CheckRecord _process_item appends for a pair.
CheckRecord(item, store_id, status) ==
    [retailer |-> item.retailer, label |-> item.label,
     item_key |-> item_key(item), store_id |-> store_id,
     store_name |-> store_name(item.retailer, store_id), status |-> status]

\* A service that appends the payload rows to the file's earlier rows.
write_status_Appends(recs) ==
    [exists |-> TRUE,
     rows |-> snapshot.rows \o
              [i \in 1..Len(recs) |->
                [retailer |-> recs[i].retailer, label |-> recs[i].label,
                 item_key |-> recs[i].item_key, store_id |-> recs[i].store_id,
                 store_name |-> recs[i].store_name, status |-> recs[i].status]]]

\* _write_status: the payload rows of the records, replacing the file.
write_status(recs) ==
    [exists |-> TRUE,
     rows |-> [i \in 1..Len(recs) |->
                [retailer |-> recs[i].retailer, label |-> recs[i].label,
                 item_key |-> recs[i].item_key, store_id |-> recs[i].store_id,
                 store_name |-> recs[i].store_name, status |-> recs[i].status]]]

\* A run_once that writes the records it has in a finally clause.
snapshot_on_raise_WritesPartial(snap, recs) == write_status(recs)

\* self._write_status(records) follows the with block: an exception that
\* leaves run_once passes it by and status_json stays as it was.
snapshot_on_raise(snap, recs) == snap

CurRetailer == RetailerOrder(watch)[ridx]
CurItems == ItemsOf(watch, CurRetailer)
CurItem == CurItems[iidx]
CurStores == found[CurRetailer]
CurStore == CurStores[sidx]

Pos(p, r, i, s) == [pc |-> p, ridx |-> r, iidx |-> i, sidx |-> s]

\* The next retailer group of the second loop of run_once, or its end.
NextRetailerPos ==
    IF ridx < Len(RetailerOrder(watch))
    THEN Pos("stores", ridx + 1, 1, 1)
    ELSE Pos("finish", 1, 1, 1)

\* A service that checks every item at the first candidate store only.
AdvancePos_FirstStoreOnly ==
    IF iidx < Len(CurItems) THEN Pos("check", ridx, iidx + 1, 1)
    ELSE NextRetailerPos

\* A service that walks the items inside the stores.
AdvancePos_ItemsInsideStores ==
    IF iidx < Len(CurItems) THEN Pos("check", ridx, iidx + 1, sidx)
    ELSE IF sidx < Len(CurStores) THEN Pos("check", ridx, 1, sidx + 1)
    ELSE NextRetailerPos

\* The next (item, store) pair: stores inside items inside retailers.
AdvancePos ==
    IF sidx < Len(CurStores) THEN Pos("check", ridx, iidx, sidx + 1)
    ELSE IF iidx < Len(CurItems) THEN Pos("check", ridx, iidx + 1, 1)
    ELSE NextRetailerPos

GoTo(pos) ==
    /\ pc' = pos.pc
    /\ ridx' = pos.ridx
    /\ iidx' = pos.iidx
    /\ sidx' = pos.sidx

RECURSIVE Reverse(_)
Reverse(q) == IF q = <<>> THEN <<>> ELSE Append(Reverse(Tail(q)), Head(q))

\* An ExitStack that exits only the adapter entered last.
ExitStackClose_OnlyLast(stk) ==
    IF stk = <<>> THEN <<>> ELSE <<stk[Len(stk)]>>

\* ExitStack.__exit__: the adapters exited when the with block is left, by
\* return or by exception: every entered one, last entered first.
ExitStackClose(stk) == Reverse(stk)

\* PlaywrightRetailerAdapter.__exit__ for the adapters the stack exits:
\* context, browser and driver are closed.
CloseScope ==
    LET exits == ExitStackClose(stack)
    IN  /\ stack' = <<>>
        /\ scope' = [scope EXCEPT !.exited = exits]
        /\ sessions' = [r \in Retailers |->
                IF \E i \in 1..Len(exits) : exits[i] = r THEN {} ELSE sessions[r]]

\* An exception leaves run_once: the ExitStack exits the entered adapters
\* and the service, its adapters and its records are gone.
Abort(kind) ==
    /\ GoTo(Pos("idle", 1, 1, 1))
    /\ watch' = <<>>
    /\ sink' = None
    /\ found' = [r \in Retailers |-> <<>>]
    /\ CloseScope
    /\ records' = <<>>
    /\ obs' = NoObs
    /\ outcome' = "raised"
    /\ error' = kind
    /\ invoked' = NoCalls
    /\ snapshot' = snapshot_on_raise(snapshot, records)

\* A service is built for the configuration and run_once starts: location,
\* records, factories and by_retailer.
StartRun(watchlist, location, geocodes, dry_run, webhook) ==
    /\ pc = "idle"
    /\ IF resolve_lat_lon(location, geocodes) = "raise"
       THEN /\ outcome' = "raised"
            /\ error' = "location"
            /\ records' = <<>>
            /\ snapshot' = snapshot_on_raise(snapshot, <<>>)
            /\ UNCHANGED <<pc, watch, sink, ridx, iidx, sidx, found, stack,
                           sessions>>
       ELSE /\ watch' = watchlist
            /\ UNCHANGED snapshot
            /\ sink' = build_alert_sink(dry_run, webhook)
            /\ pc' = IF watchlist = <<>> THEN "finish" ELSE "acquire"
            /\ ridx' = 1 /\ iidx' = 1 /\ sidx' = 1
            /\ found' = [r \in Retailers |-> <<>>]
            /\ stack' = <<>>
            /\ sessions' = NoSessions
            /\ records' = <<>>
            /\ outcome' = "running"
            /\ error' = None
    /\ scope' = [NoScope EXCEPT !.geocoder =
                    IF uses_geocoder(location) THEN "called" ELSE "none"]
    /\ db' = init_db(db)
    /\ invoked' = NoCalls
    /\ UNCHANGED <<written, callers, wlock, dump, obs, ev, config, leaked,
                   undelivered>>

\* cli `once`: build_service(config).run_once().
RunOnce(watchlist, location, geocodes, dry_run, webhook) ==
    /\ spc = "off"
    /\ StartRun(watchlist, location, geocodes, dry_run, webhook)
    /\ UNCHANGED <<schedVars, unitVars>>

\* What acquiring a retailer's adapter may do.  PlaywrightRetailerAdapter's
\* __enter__ starts the driver, the browser and the context one after the
\* other and may raise after any number of them; BestBuyAdapter() raises
\* without an API key and starts nothing.
EnterResults(retailer) ==
    {[raises |-> FALSE, started |-> 0]}
    \cup { [raises |-> TRUE, started |-> n] :
                n \in IF retailer \in PageScrape THEN 0..Len(SubResources)
                                                 ELSE {0} }

\* First loop of run_once: the factory builds the retailer's adapter and a
\* context-manager adapter is entered on the stack; either may raise.
\* enter_context registers __exit__ only after __enter__ has returned, so
\* what a failed __enter__ had started stays open.
AcquireAdapter(res) ==
    /\ pc = "acquire"
    /\ res \in EnterResults(CurRetailer)
    /\ IF ~res.raises
       THEN /\ IF CurRetailer \in PageScrape
               THEN /\ stack' = Append(stack, CurRetailer)
                    /\ scope' = [scope EXCEPT
                                    !.entered = Append(scope.entered, CurRetailer)]
                    /\ sessions' = [sessions EXCEPT ![CurRetailer] =
                            { SubResources[i] : i \in 1..Len(SubResources) }]
               ELSE UNCHANGED <<stack, scope, sessions>>
            /\ IF ridx < Len(RetailerOrder(watch))
               THEN GoTo(Pos("acquire", ridx + 1, 1, 1))
               ELSE GoTo(Pos("stores", 1, 1, 1))
            /\ UNCHANGED <<watch, sink, found, records, obs, outcome, error, ev,
                           leaked, invoked, snapshot>>
       ELSE /\ Abort("acquire")
            /\ ev' = NoEvent
            /\ leaked' = leaked \cup
                    { <<CurRetailer, SubResources[i]>> : i \in 1..res.started }
    /\ UNCHANGED <<db, written, callers, wlock, dump, config, undelivered>>

\* Second loop of run_once: stores = adapter.find_stores_near(...), outside
\* any try block.
FindStores(res) ==
    /\ pc = "stores"
    /\ IF res.raises
       THEN Abort("find_stores") /\ ev' = NoEvent
       ELSE /\ found' = [found EXCEPT ![CurRetailer] = res.stores]
            /\ invoked' = [invoked EXCEPT !.finds = Append(invoked.finds, CurRetailer)]
            /\ IF res.stores = <<>> THEN GoTo(NextRetailerPos)
                             ELSE GoTo(Pos("check", ridx, 1, 1))
            /\ UNCHANGED <<watch, sink, stack, sessions, scope, records, obs,
                           outcome, error, ev, snapshot>>
    /\ UNCHANGED <<db, written, callers, wlock, dump, config, leaked, undelivered>>

\* _process_item, one (item, store) pair up to the alert: the check inside
\* the per-check boundary, then transition = self.state.update_status(...)
\* outside any try block; the record is appended here unless an alert is to
\* be sent first.
ProcessPair(raw, store_ok) ==
    /\ pc = "check"
    /\ raw \in CheckResults(CurItem)
    /\ LET status == check_boundary(raw)
           key == KeyOf(CurItem, CurStore)
           transition == TransitionResult(get_status(db, key), status)
           updated == state_boundary(store_ok)
       IN  IF status = "raise" \/ updated = "raise"
           THEN /\ Abort(IF status = "raise" THEN raw ELSE "state")
                /\ ev' = NoEvent
                /\ UNCHANGED <<db, written, undelivered>>
           ELSE /\ db' = IF store_ok THEN Upsert(db, key, status) ELSE db
                /\ undelivered' = IF status = IN_STOCK THEN undelivered
                                  ELSE undelivered \ {key}
                /\ invoked' = [invoked EXCEPT
                        !.checks = Append(invoked.checks, <<CurRetailer, iidx, CurStore>>),
                        !.updates = Append(invoked.updates, <<CurRetailer, iidx, CurStore>>)]
                /\ written' = IF store_ok THEN [written EXCEPT ![key] = status]
                                           ELSE written
                /\ ev' = [key |-> key, before |-> get_status(db, key),
                          status |-> status,
                          check |-> IF raw \in StockStatus THEN "ok" ELSE raw,
                          update |-> IF store_ok THEN "ok" ELSE "fault",
                          send |-> "none"]
                /\ IF store_ok /\ ShouldSend(transition)
                   THEN /\ pc' = "alert"
                        /\ obs' = [status |-> status]
                        /\ UNCHANGED <<ridx, iidx, sidx, records>>
                   ELSE /\ GoTo(AdvancePos)
                        /\ records' = Append(records,
                                CheckRecord(CurItem, CurStore, status))
                        /\ obs' = NoObs
                /\ UNCHANGED <<watch, sink, found, stack, sessions, scope,
                               outcome, error, snapshot>>
    /\ UNCHANGED <<callers, wlock, dump, config, leaked>>

\* _process_item: self.alert_sink.send(message) inside its boundary, then
\* the record is appended.
SendAlert(result) ==
    /\ pc = "alert"
    /\ result \in SendResults(sink)
    /\ IF send_boundary(result) = "raise"
       THEN Abort("send") /\ ev' = NoEvent /\ UNCHANGED <<undelivered, db>>
       ELSE /\ GoTo(AdvancePos)
            /\ db' = after_send(db, ev.key, ev.before, result)
            /\ ev' = [ev EXCEPT !.send = result]
            /\ undelivered' = IF result = "failed" THEN undelivered \cup {ev.key}
                              ELSE undelivered
            /\ UNCHANGED invoked
            /\ records' = Append(records, CheckRecord(CurItem, CurStore, obs.status))
            /\ obs' = NoObs
            /\ UNCHANGED <<watch, sink, found, stack, sessions, scope,
                           outcome, error, snapshot>>
    /\ UNCHANGED <<written, callers, wlock, dump, config, leaked>>

\* The ExitStack exits the adapters, _write_status replaces the snapshot and
\* run_once returns the records.
FinishRun ==
    /\ pc = "finish"
    /\ GoTo(Pos("idle", 1, 1, 1))
    /\ snapshot' = write_status(records)
    /\ CloseScope
    /\ watch' = <<>>
    /\ sink' = None
    /\ found' = [r \in Retailers |-> <<>>]
    /\ outcome' = "returned"
    /\ ev' = NoEvent
    /\ UNCHANGED <<db, written, callers, wlock, dump, records, obs, error, config, leaked,
                   undelivered, invoked>>

RunStepsOver(lists) ==
    /\ \/ \E res \in UNION { EnterResults(r) : r \in Retailers } :
               AcquireAdapter(res)
       \/ /\ pc = "stores"
          /\ \E res \in FindResultsOver(CurRetailer, lists) : FindStores(res)
       \/ \E raw \in StockStatus \cup {"mismatch", "fault"}, store_ok \in BOOLEAN :
               ProcessPair(raw, store_ok)
       \/ \E result \in {"sent", "failed"} : SendAlert(result)
       \/ FinishRun
    /\ UNCHANGED <<schedVars, unitVars>>

RunSteps == RunStepsOver(StoreLists)

\* AppConfig.poll_seconds: Field(default=180, ge=120).
PollSecondsDefault == 180

Configs ==
    { [watchlist |-> w, location |-> l, poll_seconds |-> PollSecondsDefault] :
        w \in Watchlists, l \in Locations }

InitOnce ==
    /\ db = <<>>
    /\ written = [k \in Keys |-> None]
    /\ wlock = None
    /\ dump = NoDump
    /\ callers = [c \in Callers |-> IdleCaller]
    /\ InitRun
    /\ InitUnitsOff
    /\ InitSchedOff
    /\ config \in Configs

NextRun ==
    \/ \E geocodes, dry_run, webhook \in BOOLEAN :
            RunOnce(config.watchlist, config.location, geocodes, dry_run, webhook)
    \/ RunSteps

SpecRun == InitOnce /\ [][NextRun]_vars

\* Runs of services built for one located configuration, each with its own
\* dry_run flag and webhook setting.
AlertConfigs ==
    { c \in Configs : HasCoordinates(c.location) /\ c.watchlist # <<>> }

\* build_service(config, dry_run).run_once(), the alert settings recorded.
RunOnceWith(dry_run, webhook) ==
    /\ spc = "off"
    /\ StartRun(config.watchlist, config.location, TRUE, dry_run, webhook)
    /\ alerts' = [dry_run |-> dry_run, webhook |-> webhook]
    /\ UNCHANGED <<schedVars, textVars, confVars, sessVars, discovery, tickets>>

InitAlerts ==
    /\ db = <<>>
    /\ written = [k \in Keys |-> None]
    /\ wlock = None
    /\ dump = NoDump
    /\ callers = [c \in Callers |-> IdleCaller]
    /\ InitRun
    /\ InitUnitsOff
    /\ InitSchedOff
    /\ config \in AlertConfigs

NextAlerts ==
    \/ \E dry_run, webhook \in BOOLEAN : RunOnceWith(dry_run, webhook)
    \/ RunSteps

SpecAlerts == InitAlerts /\ [][NextAlerts]_vars

\* The first run_once of a service over a store directory that answers with
\* up to MaxFound stores.
OrderConfigs == { c \in Configs : resolvable(c.location) }

InitOrder ==
    /\ db = <<>>
    /\ written = [k \in FoundKeys |-> None]
    /\ wlock = None
    /\ dump = NoDump
    /\ callers = [c \in Callers |-> IdleCaller]
    /\ InitRun
    /\ InitUnitsOff
    /\ InitSchedOff
    /\ config \in OrderConfigs

NextOrder ==
    \/ /\ outcome = "none"
       /\ \E geocodes, dry_run, webhook \in BOOLEAN :
            RunOnce(config.watchlist, config.location, geocodes, dry_run, webhook)
    \/ RunStepsOver(FoundLists)

SpecOrder == InitOrder /\ [][NextOrder]_vars

\* The number of (item, store) pairs of the retailer groups whose stores
\* have been looked up.
RECURSIVE PairsOf(_, _)
PairsOf(w, order) ==
    IF order = <<>> THEN 0
    ELSE Len(ItemsOf(w, Head(order))) * Len(found[Head(order)])
         + PairsOf(w, Tail(order))

(***************************************************************************)
(* Claims about run_once                                                   *)
(***************************************************************************)
\* The most recent CheckRecord is the one of the most recent state update.
LastRecordIsOf(event) ==
    /\ records # <<>>
    /\ LET last == records[Len(records)]
       IN  /\ <<last.retailer, last.item_key, last.store_id>> = event.key
           /\ last.status = event.status

\* C2: over sequential run_once calls, send is invoked for an observation
\* exactly when it moves the key's recorded status into in_stock from another
\* or an absent status: not when in_stock is re-observed, and never for a
\* move between out_of_stock and unknown.
C2_AlertOncePerArrival ==
    ev.key # NoKey =>
        LET arrival == ev.status = IN_STOCK /\ ev.before # IN_STOCK
        IN  IF pc = "alert" THEN arrival /\ ev.send = "none"
            ELSE (ev.send # "none") = arrival

\* C2 happens: in a run after an earlier completed run, a key recorded as
\* out_of_stock is observed in_stock and the alert has been sent.
C2_Witness ==
    /\ snapshot.exists
    /\ ev.before = OUT_OF_STOCK /\ ev.status = IN_STOCK /\ ev.send = "sent"

\* C5: a fault raised by a retailer's adapter in find_stores_near or in
\* check_item_in_store never halts run_once: no run ends with such a fault
\* leaving it.
C5_PartialFailureIsolation ==
    outcome = "raised" => error \notin {"find_stores", "fault", "mismatch"}

\* C6: a fault raised by check_item_in_store is caught: it never leaves
\* run_once, the observation is unknown in the state store and in the pair's
\* CheckRecord, and a run that reaches its end has a record for every
\* (item, store) pair.
C6_PerCheckErrorBoundary ==
    /\ error \notin {"fault", "mismatch"}
    /\ ev.check \in {"fault", "mismatch"} =>
            /\ ev.status = UNKNOWN
            /\ get_status(db, ev.key) = UNKNOWN
            /\ pc # "alert"
            /\ LastRecordIsOf(ev)
    /\ pc = "finish" => Len(records) = PairsOf(watch, RetailerOrder(watch))

\* C6 happens: the check of the first pair raised, its record says unknown
\* and the run is at the next pair.
C6_Witness ==
    /\ ev.check = "fault"
    /\ pc = "check"
    /\ Len(records) = 1 /\ records[1].status = UNKNOWN

\* The record of an item whose identifier kind its adapter rejects.
MismatchRecord(rec) ==
    IF rec.retailer \in PageScrape THEN rec.item_key[1] # "url"
                                   ELSE rec.item_key[1] # "sku"

\* C7 as claimed: configuration errors are fatal to the run: no run_once
\* over an item whose identifier kind is incompatible with its adapter
\* returns; it fails.
C7_ConfigErrorsFatal ==
    outcome = "returned" =>
        \A i \in 1..Len(records) : ~MismatchRecord(records[i])

\* C7 amended: a missing location is fatal to every run_once, before any
\* adapter, state row or snapshot; a run whose location cannot be resolved
\* ends with that error; an incompatible identifier kind is not fatal: it is
\* caught at the check, the observation is recorded as unknown and the fault
\* never leaves run_once.
C7_LocationFatalMismatchRecovered ==
    /\ ~resolvable(config.location) =>
            /\ pc = "idle"
            /\ outcome \in {"none", "raised"}
            /\ db = <<>>
            /\ ~snapshot.exists
    /\ error = "location" =>
            /\ outcome = "raised"
            /\ ~HasCoordinates(config.location)
            /\ records = <<>>
    /\ error # "mismatch"
    /\ ev.check = "mismatch" => ev.status = UNKNOWN /\ LastRecordIsOf(ev)

\* C7 amended happens: an identifier mismatch was the last check of a run
\* that is about to return.
C7_Witness ==
    /\ ev.check = "mismatch"
    /\ pc = "finish"

\* C21: run_once resolves the location before anything else.  Configured
\* coordinates are used and the zip geocoder is not called, even when a zip is
\* configured too; without both coordinates the configured zip is geocoded;
\* with neither, every run_once raises the location error with no adapter
\* entered, no state row, no alert and no snapshot.
C21_LocationResolvedFirst ==
    /\ HasCoordinates(config.location) =>
            /\ scope.geocoder = "none"
            /\ error # "location"
    /\ (uses_geocoder(config.location) /\ outcome # "none") =>
            scope.geocoder = "called"
    /\ ~resolvable(config.location) =>
            /\ pc = "idle"
            /\ scope.geocoder = "none"
            /\ outcome \in {"none", "raised"}
            /\ outcome = "raised" => error = "location"
            /\ scope.entered = <<>>
            /\ leaked = {}
            /\ db = <<>>
            /\ ev = NoEvent
            /\ records = <<>>
            /\ ~snapshot.exists

\* C21 happens: a run over coordinates configured next to a zip returned
\* with records.
C21_Witness ==
    /\ HasCoordinates(config.location)
    /\ config.location.zip
    /\ outcome = "returned"
    /\ records # <<>>

\* The pairs of a retailer group: item after item in watchlist order, each
\* with the stores in the order find_stores_near returned them.
RECURSIVE GroupPairs(_, _)
GroupPairs(items, stores) ==
    IF items = <<>> THEN <<>>
    ELSE [s \in 1..Len(stores) |->
            <<Head(items).label, item_key(Head(items)), stores[s]>>]
         \o GroupPairs(Tail(items), stores)

\* C22: within one run_once the items of a retailer group are checked in
\* watchlist order and each item's stores in the order find_stores_near
\* returned them; the CheckRecords of the group appear in the records in that
\* (item, then store) order, and the records of a run that is about to return
\* hold every pair of the group.
C22_RecordsInCheckOrder ==
    pc \in {"acquire", "stores", "check", "alert", "finish"} =>
        \A r \in Retailers :
            LET mine == SelectSeq(records, LAMBDA rec : rec.retailer = r)
                expected == GroupPairs(ItemsOf(watch, r), found[r])
            IN  /\ Len(mine) <= Len(expected)
                /\ \A i \in 1..Len(mine) :
                        <<mine[i].label, mine[i].item_key, mine[i].store_id>>
                            = expected[i]
                /\ pc = "finish" => Len(mine) = Len(expected)
                /\ (pc \in {"check", "alert"} /\ r = CurRetailer) =>
                        /\ Len(mine) < Len(expected)
                        /\ expected[Len(mine) + 1]
                              = <<CurItem.label, item_key(CurItem), CurStore>>

\* C22 happens: a run over two items of one retailer and two stores is about
\* to return its four records.
C22_Witness ==
    /\ pc = "finish"
    /\ Len(records) = 4
    /\ \E r \in Retailers : Len(found[r]) = 2 /\ Len(ItemsOf(watch, r)) = 2

\* The fields of a snapshot row.
SnapshotFields ==
    {"retailer", "label", "item_key", "store_id", "store_name", "status"}

\* How often x occurs in the sequence q.
Count(q, x) == Cardinality({ n \in 1..Len(q) : q[n] = x })

\* C32: in a run_once that returns, find_stores_near is called exactly once
\* for each distinct retailer of the watchlist, and for every (watched item,
\* candidate store) pair of the retailer there is exactly one
\* check_item_in_store call, one state-store update and one CheckRecord,
\* also when the check raised; a retailer without candidate stores has no
\* update and no record.
C32_OncePerRetailerAndPair ==
    pc = "finish" =>
        LET order == RetailerOrder(watch)
        IN  /\ Len(invoked.finds) = Len(order)
            /\ \A g \in 1..Len(order) : Count(invoked.finds, order[g]) = 1
            /\ Len(invoked.checks) = PairsOf(watch, order)
            /\ Len(invoked.updates) = Len(invoked.checks)
            /\ Len(records) = Len(invoked.checks)
            /\ \A g \in 1..Len(order) :
                \A i \in 1..Len(ItemsOf(watch, order[g])) :
                \A s \in 1..Len(found[order[g]]) :
                    LET item == ItemsOf(watch, order[g])[i]
                        pair == <<order[g], i, found[order[g]][s]>>
                    IN  /\ Count(invoked.checks, pair) = 1
                        /\ Count(invoked.updates, pair) = 1
                        /\ \A n \in 1..Len(invoked.checks) :
                                invoked.checks[n] = pair =>
                                    /\ invoked.updates[n] = pair
                                    /\ records[n].retailer = item.retailer
                                    /\ records[n].label = item.label
                                    /\ records[n].item_key = item_key(item)
                                    /\ records[n].store_id = pair[3]
            /\ \A g \in 1..Len(order) :
                    found[order[g]] = <<>> =>
                        /\ \A n \in 1..Len(records) : records[n].retailer # order[g]
                        /\ \A n \in 1..Len(invoked.updates) :
                                invoked.updates[n][1] # order[g]

\* C32 happens: a run over two items and two stores, one of whose checks
\* raised, has reached its end with four records.
C32_Witness ==
    /\ pc = "finish"
    /\ Len(records) = 4
    /\ \E n \in 1..Len(records) : records[n].status = UNKNOWN
    /\ ev.check = "fault"

\* C23: after every run_once that returns, the status snapshot holds exactly
\* the returned CheckRecords in their order, each with the fields retailer,
\* label, item_key, store_id, store_name and status, and nothing of an
\* earlier snapshot.
C23_SnapshotIsReturnedRecords ==
    outcome = "returned" =>
        /\ snapshot.exists
        /\ Len(snapshot.rows) = Len(records)
        /\ \A i \in 1..Len(records) :
                /\ DOMAIN snapshot.rows[i] = SnapshotFields
                /\ \A f \in SnapshotFields : snapshot.rows[i][f] = records[i][f]

\* C23 happens: a run returned two records of different statuses.
C23_Witness ==
    /\ outcome = "returned"
    /\ Len(records) = 2
    /\ snapshot.rows[1].status # snapshot.rows[2].status

\* C27: over any sequence of runs, a run with dry_run set or without a
\* webhook has the dry-run sink, also when a webhook is configured together
\* with dry_run: its sends always succeed and none of them is made on the
\* webhook sink, the only one that posts.
C27_DryRunNeverPosts ==
    (alerts.dry_run \/ ~alerts.webhook) =>
        /\ sink \in {None, "DryRunAlertSink"}
        /\ pc # "idle" => sink = "DryRunAlertSink"
        /\ ev.send \in {"none", "sent"}
        /\ error # "send"

\* C27 happens: in a later run with dry_run and a webhook, the alert for a
\* key recorded as out_of_stock has been sent on the dry-run sink.
C27_Witness ==
    /\ alerts.dry_run
    /\ alerts.webhook
    /\ sink = "DryRunAlertSink"
    /\ ev.before = OUT_OF_STOCK
    /\ ev.send = "sent"

\* C31: within _process_item the state-store update of a pair is committed
\* before its alert is sent: while the alert is being sent the row already
\* says in_stock.  A failed send leaves the row in_stock, so the next
\* in_stock observation of the key returns changed = false and should_alert
\* = false: no alert is sent again for a key whose delivery failed, as long
\* as it stays in_stock.
C31_CommitBeforeSendNoRetry ==
    /\ pc = "alert" =>
            /\ get_status(db, ev.key) = IN_STOCK
            /\ ev.key \notin undelivered
    /\ \A k \in undelivered : get_status(db, k) = IN_STOCK
    /\ (ev.key # NoKey /\ ev.key \in undelivered /\ ev.send # "failed") =>
            /\ ev.before = IN_STOCK /\ ev.status = IN_STOCK
            /\ ~TransitionResult(ev.before, ev.status).changed
            /\ ~ShouldSend(TransitionResult(ev.before, ev.status))
            /\ ev.send = "none"

\* C31 happens: in a later run, a key whose alert delivery had failed was
\* observed in_stock again and the pair was passed without an alert.
C31_Witness ==
    /\ snapshot.exists
    /\ ev.key # NoKey /\ ev.key \in undelivered
    /\ ev.before = IN_STOCK /\ ev.status = IN_STOCK /\ ev.send = "none"
    /\ sink = "DiscordWebhookAlertSink"
    /\ pc # "alert"

\* C34: if run_once raises (location unresolved, adapter creation or
\* acquisition failure, find_stores_near failure, state-store fault), the
\* status snapshot is not written: the step in which the exception leaves
\* run_once changes neither the snapshot nor the state store, so the
\* previous snapshot stays and the updates the run made stay recorded.
C34_RaiseKeepsSnapshotAndUpdates ==
    [][outcome' = "raised" =>
            /\ snapshot' = snapshot
            /\ db' = db
            /\ written' = written]_vars

\* C34 happens: a run that followed a completed one stored in_stock for a
\* key and was then left by a find_stores_near failure; the snapshot still
\* has the key's row of the earlier run, with another status.
C34_Witness ==
    /\ outcome = "raised" /\ error = "find_stores"
    /\ snapshot.exists
    /\ \E n \in 1..Len(snapshot.rows) :
            LET row == snapshot.rows[n]
                key == <<row.retailer, row.item_key, row.store_id>>
            IN  /\ row.status # IN_STOCK
                /\ get_status(db, key) = IN_STOCK
                /\ written[key] = IN_STOCK

\* C8: a failure of alert_sink.send never leaves run_once: the in_stock
\* status that triggered the alert stays in the state store, the pair's
\* CheckRecord is appended, and a run that reaches its end has a record for
\* every (item, store) pair.
C8_AlertFailureRecovered ==
    /\ error # "send"
    /\ ev.send = "failed" =>
            /\ ev.status = IN_STOCK
            /\ get_status(db, ev.key) = IN_STOCK
            /\ LastRecordIsOf(ev)
    /\ pc = "finish" => Len(records) = PairsOf(watch, RetailerOrder(watch))
    /\ pc = "alert" => get_status(db, ev.key) = IN_STOCK

\* C8 happens: the alert of the first pair failed, its record is appended
\* and the run is at the next pair.
C8_Witness ==
    /\ ev.send = "failed"
    /\ pc = "check"
    /\ Len(records) = 1 /\ records[1].status = IN_STOCK

\* C14: a fault of update_status is not swallowed: it leaves run_once at
\* once, so no pair of a run is ever processed past a failed state update,
\* and the run it left has ended with that exception and returns no records.
C14_StateFaultAborts ==
    /\ ev.update # "fault"
    /\ pc # "idle" => ev.update \in {None, "ok"}
    /\ error = "state" =>
            /\ pc = "idle"
            /\ outcome = "raised"
            /\ records = <<>>

\* C14 happens: before any run has completed, a run stored an observation
\* and was then left by a fault of the state store.
C14_Witness ==
    /\ error = "state" /\ outcome = "raised"
    /\ ~snapshot.exists
    /\ db # <<>>

\* C12: every adapter entered during run_once is exited exactly once when
\* the run ends, by return or by exception, last entered first; during the
\* run no entered adapter has been exited, and the adapter a lookup or a
\* check uses holds its whole session open.
C12_AdaptersReleased ==
    /\ \A i, j \in 1..Len(scope.entered) :
            i # j => scope.entered[i] # scope.entered[j]
    /\ pc = "idle" =>
            /\ stack = <<>>
            /\ scope.exited = Reverse(scope.entered)
            /\ sessions = NoSessions
    /\ pc # "idle" =>
            /\ scope.exited = <<>>
            /\ stack = scope.entered
    /\ (pc \in {"stores", "check", "alert"} /\ CurRetailer \in PageScrape) =>
            /\ \E i \in 1..Len(stack) : stack[i] = CurRetailer
            /\ sessions[CurRetailer] =
                    { SubResources[i] : i \in 1..Len(SubResources) }

\* C12 happens: a run that had entered two adapters was left by a fault of
\* the state store and both were exited.
C12_Witness ==
    /\ outcome = "raised" /\ error = "state"
    /\ Len(scope.exited) = Len(scope.entered)
    /\ Len(scope.exited) > 1

\* C13: acquiring a page-scrape adapter's session releases on partial
\* failure: whatever __enter__ had started before it raised is released, so
\* no sub-resource is ever left open without an adapter that will close it.
C13_PartialInitReleased == leaked = {}

(***************************************************************************)
(* StockCheckerService.run_forever (stockcheck/runner.py)                  *)
(***************************************************************************)
\* AppConfig.poll_seconds: Field(default=180, ge=120), here at its floor.
PollSecondsMin == 120

\* time.sleep(2) of a pass that ran no item.
SleepSeconds == 2

\* random.uniform(0.8, 1.2), in percent: both ends and the middle.
JitterPercent == {80, 100, 120}

\* Seconds a single-item run may take.
RunDurations == {2, 60}

\* A scheduler that forgets the time of the pass: base * jitter_factor alone.
NextDue_WithoutNow(pass_now, base, jitter) == (base * jitter) \div 100

\* schedule[key] = now + (base * jitter_factor).
NextDue(pass_now, base, jitter) == pass_now + (base * jitter) \div 100

\* A scheduler that runs every item in every pass.
IsDue_Always(pass_now, due) == TRUE

\* if now < due: continue.
IsDue(pass_now, due) == ~(pass_now < due)

SchedItem == config.watchlist[widx]

\* A run_once_for_item that runs the service over the whole watchlist.
partial_watchlist_Whole(item) == config.watchlist

\* run_once_for_item: partial_config's watchlist is [item].
partial_watchlist(item) == <<item>>

\* One iteration of `for item in self.config.watchlist`: the item is skipped
\* while it is not due, else run_once_for_item builds a service for the
\* watchlist [item] and calls its run_once.
ScanItem(geocodes, dry_run, webhook) ==
    /\ spc = "scan"
    /\ widx <= Len(config.watchlist)
    /\ IF IsDue(now, schedule[ScheduleKey(SchedItem)])
       THEN /\ StartRun(partial_watchlist(SchedItem), config.location, geocodes,
                        dry_run, webhook)
            /\ spc' = "running"
            /\ firstPass' = IF firstPass.open
                        THEN [firstPass EXCEPT !.ran = Append(firstPass.ran, widx)]
                        ELSE firstPass
            /\ UNCHANGED <<clock, now, schedule, widx, triggered, ranAt, started>>
            /\ UNCHANGED unitVars
       ELSE /\ widx' = widx + 1
            /\ UNCHANGED <<spc, clock, now, schedule, triggered, ranAt, started,
                           firstPass>>
            /\ UNCHANGED <<db, written, callers, wlock, dump, runVars, unitVars>>

\* run_once_for_item is over after `seconds`: when it returned, the item is
\* rescheduled and triggered is set; when it raised, the exception leaves
\* run_forever, which has no handler around the call.
AfterItemRun(jitter, seconds) ==
    /\ spc = "running"
    /\ pc = "idle"
    /\ clock + seconds <= MaxTime
    /\ clock' = clock + seconds
    /\ IF outcome = "returned"
       THEN /\ schedule' = [schedule EXCEPT ![ScheduleKey(SchedItem)] =
                                NextDue(now, config.poll_seconds, jitter)]
            /\ ranAt' = [ranAt EXCEPT ![ScheduleKey(SchedItem)] = now]
            /\ started' = [started EXCEPT ![ScheduleKey(SchedItem)] = clock]
            /\ triggered' = TRUE
            /\ widx' = widx + 1
            /\ spc' = "scan"
       ELSE /\ spc' = "terminated"
            /\ UNCHANGED <<schedule, ranAt, started, triggered, widx>>
    /\ UNCHANGED <<now, firstPass, db, written, callers, wlock, dump, runVars,
                   unitVars>>

\* A scheduler that never sleeps: with nothing due it scans again at once.
idle_seconds_Never(trig) == 0

\* A scheduler that sleeps at the end of every pass.
idle_seconds_Always(trig) == SleepSeconds

\* if not triggered: time.sleep(2).
idle_seconds(trig) == IF trig THEN 0 ELSE SleepSeconds

\* The end of a pass and the start of the next: time.sleep(2) when no item
\* was run, then now = time.time(), triggered = False.
NextPass ==
    /\ spc = "scan"
    /\ widx > Len(config.watchlist)
    /\ LET wake == clock + idle_seconds(triggered)
       IN  /\ wake <= MaxTime
           /\ clock' = wake
           /\ now' = wake
    /\ triggered' = FALSE
    /\ widx' = 1
    /\ firstPass' = [firstPass EXCEPT !.open = FALSE]
    /\ UNCHANGED <<spc, schedule, ranAt, started, db, written, callers, wlock, dump,
                   runVars,
                   unitVars>>

SchedConfigs ==
    { [watchlist |-> w, location |-> l, poll_seconds |-> PollSecondsMin] :
        w \in Watchlists, l \in Locations }

\* cli `run`: build_service(config).run_forever(), at its first pass.
InitForever ==
    /\ db = <<>>
    /\ written = [k \in Keys |-> None]
    /\ wlock = None
    /\ dump = NoDump
    /\ callers = [c \in Callers |-> IdleCaller]
    /\ InitRun
    /\ InitUnitsOff
    /\ config \in SchedConfigs
    /\ spc = "scan"
    /\ clock = 2
    /\ now = 2
    /\ schedule = [k \in ScheduleKeys |-> 0]
    /\ widx = 1
    /\ triggered = FALSE
    /\ ranAt = [k \in ScheduleKeys |-> 0]
    /\ started = [k \in ScheduleKeys |-> 0]
    /\ firstPass = NoPass

NextSched ==
    \/ \E geocodes, dry_run, webhook \in BOOLEAN :
            ScanItem(geocodes, dry_run, webhook)
    \/ \E jitter \in JitterPercent, seconds \in RunDurations :
            AfterItemRun(jitter, seconds)
    \/ NextPass
    \/ RunSteps

SpecSched == InitForever /\ [][NextSched]_vars

(***************************************************************************)
(* run_forever without an end of time                                      *)
(***************************************************************************)
\* run_forever compares now with the due times and adds to now: it depends
\* on the differences of the times only.  Here the times are kept relative
\* to the start of the pass, so that the loop can be followed forever: at
\* the start of a pass now is 0 and a due time is the time left until it,
\* 0 when it has passed.
TimeLeft(due, wake) == IF due > wake THEN due - wake ELSE 0

\* The end of a pass and the start of the next, as NextPass, with the times
\* taken relative to the new now.
NextPassRelative ==
    /\ spc = "scan"
    /\ widx > Len(config.watchlist)
    /\ LET wake == clock + idle_seconds(triggered)
       IN  schedule' = [k \in ScheduleKeys |-> TimeLeft(schedule[k], wake)]
    /\ clock' = 0
    /\ now' = 0
    /\ triggered' = FALSE
    /\ widx' = 1
    /\ firstPass' = [firstPass EXCEPT !.open = FALSE]
    /\ ranAt' = [k \in ScheduleKeys |-> 0]
    /\ started' = [k \in ScheduleKeys |-> 0]
    /\ UNCHANGED <<spc, db, written, callers, wlock, dump, runVars, unitVars>>

\* The steps of a single-item run that terminates without raising: every
\* adapter is acquired, every store lookup and state update succeeds.
RunStepsReturning ==
    /\ \/ AcquireAdapter([raises |-> FALSE, started |-> 0])
       \/ /\ pc = "stores"
          /\ \E res \in FindResults(CurRetailer) : ~res.raises /\ FindStores(res)
       \/ \E raw \in {IN_STOCK, OUT_OF_STOCK, "mismatch"} : ProcessPair(raw, TRUE)
       \/ SendAlert("sent")
       \/ FinishRun
    /\ UNCHANGED <<schedVars, unitVars>>

\* Configurations with coordinates and a watchlist of MaxItems items.
LiveConfigs ==
    { c \in SchedConfigs :
        HasCoordinates(c.location) /\ Len(c.watchlist) = MaxItems }

InitLive ==
    /\ db = <<>>
    /\ written = [k \in Keys |-> None]
    /\ wlock = None
    /\ dump = NoDump
    /\ callers = [c \in Callers |-> IdleCaller]
    /\ InitRun
    /\ InitUnitsOff
    /\ config \in LiveConfigs
    /\ spc = "scan"
    /\ clock = 0
    /\ now = 0
    /\ schedule = [k \in ScheduleKeys |-> 0]
    /\ widx = 1
    /\ triggered = FALSE
    /\ ranAt = [k \in ScheduleKeys |-> 0]
    /\ started = [k \in ScheduleKeys |-> 0]
    /\ firstPass = NoPass

NextLive ==
    \/ ScanItem(TRUE, TRUE, FALSE)
    \/ \E jitter \in JitterPercent, seconds \in RunDurations :
            AfterItemRun(jitter, seconds)
    \/ NextPassRelative
    \/ RunStepsReturning

\* Where the loop and the run inside it are: every step changes it.
position == <<spc, widx, pc, ridx, iidx, sidx>>

\* Every single-item run terminates and time advances: the loop always
\* takes its next step.
SpecLive == InitLive /\ [][NextLive]_vars /\ WF_position(NextLive)

(***************************************************************************)
(* Claims about run_forever                                                *)
(***************************************************************************)
\* C9: the scheduler loop survives a failed single-item run: run_forever
\* never terminates.
C9_LoopSurvivesFailedRun == spc # "terminated"

\* C10: an item that was run is due again at now + poll_seconds * j with j
\* in [0.8, 1.2], now being the time of the pass that ran it, and an item is
\* only run in a pass whose time is not earlier than its due time.
C10_JitteredReschedule ==
    /\ \A k \in ScheduleKeys :
            schedule[k] # 0 =>
                /\ 10 * (schedule[k] - ranAt[k]) >= 8 * config.poll_seconds
                /\ 10 * (schedule[k] - ranAt[k]) <= 12 * config.poll_seconds
    /\ spc = "running" => now >= schedule[ScheduleKey(SchedItem)]

\* C10 happens: an item that was run and rescheduled is being run again.
C10_Witness ==
    /\ spc = "running"
    /\ schedule[ScheduleKey(SchedItem)] # 0

Pieces ==
    { "un", "available", "not ", " at this store", "ready", " for ", "pickup",
      "pick up", "in stock", "out of stock", "sold out", "-",
      "AVAILABLE", "Sold Out" }

Contents == UNION { [1..n -> Pieces] : n \in 0..MaxText }

\* str.lower() on a piece.
lower_piece(piece) ==
    CASE piece = "AVAILABLE" -> "available"
      [] piece = "Sold Out" -> "sold out"
      [] OTHER -> piece

\* content = page.inner_text("body").lower(); _flatten_text(payload).lower().
lower(text) == [i \in 1..Len(text) |-> lower_piece(text[i])]

\* `term in content`: the term is a substring of the text.
Occurs(term, text) ==
    \E i \in 0..(Len(text) - Len(term)) :
        \A j \in 1..Len(term) : text[i + j] = term[j]

\* TargetAdapter.positive_signals, GameStopAdapter.positive_signals and
\* BestBuyAdapter.check_item_in_store's positive.
positive_signals(adapter) ==
    CASE adapter = "target" ->
            { <<"pickup">>, <<"ready", " for ", "pickup">>, <<"in stock">>,
              <<"available">> }
      [] adapter = "gamestop" ->
            { <<"pick up">>, <<"available">>, <<"in stock">> }
      [] adapter = "bestbuy" ->
            { <<"available">>, <<"in stock">>, <<"pickup">>, <<"ready">> }

\* The negative_signals of the same adapters.
negative_signals(adapter) ==
    CASE adapter = "target" ->
            { <<"out of stock">>, <<"sold out">>,
              <<"not ", "available", " at this store">>, <<"un", "available">> }
      [] adapter = "gamestop" ->
            { <<"out of stock">>, <<"not ", "available">>, <<"un", "available">> }
      [] adapter = "bestbuy" ->
            { <<"sold out">>, <<"un", "available">>, <<"out of stock">>,
              <<"not ", "available">> }

any_term(terms, text) == \E term \in terms : Occurs(term, text)

\* An adapter that tests the positive terms first.
classify_PositiveFirst(adapter, text) ==
    IF any_term(positive_signals(adapter), lower(text)) THEN IN_STOCK
    ELSE IF any_term(negative_signals(adapter), lower(text)) THEN OUT_OF_STOCK
    ELSE UNKNOWN

\* The two tests that end _check_item_with_page and check_item_in_store.
classify(adapter, text) ==
    IF any_term(negative_signals(adapter), lower(text)) THEN OUT_OF_STOCK
    ELSE IF any_term(positive_signals(adapter), lower(text)) THEN IN_STOCK
    ELSE UNKNOWN

\* The adapter classifies the text it fetched.
Classify ==
    /\ classified = None
    /\ classified' = classify(classifier, content)
    /\ UNCHANGED <<classifier, content, idleVars, confVars, sessVars, alerts,
                   discovery, tickets>>

InitClassify ==
    /\ InitIdle
    /\ InitConfOff
    /\ InitSessOff
    /\ alerts = NoAlerts
    /\ discovery = NoDiscovery
    /\ tickets = NoTickets
    /\ classifier \in Retailers
    /\ content \in Contents
    /\ classified = None

NextClassify == Classify

SpecClassify == InitClassify /\ [][NextClassify]_vars

\* C24: for every adapter and every text, the status returned is out_of_stock
\* exactly when a negative term of the adapter occurs in the lowercased text,
\* in_stock exactly when none does and a positive term occurs, unknown
\* exactly when neither occurs; a text with both classifies as out_of_stock.
C24_NegativeFirst ==
    classified # None =>
        LET negative == any_term(negative_signals(classifier), lower(content))
            positive == any_term(positive_signals(classifier), lower(content))
        IN  /\ (classified = OUT_OF_STOCK) <=> negative
            /\ (classified = IN_STOCK) <=> (~negative /\ positive)
            /\ (classified = UNKNOWN) <=> (~negative /\ ~positive)
            /\ (negative /\ positive) => classified = OUT_OF_STOCK

\* C24 happens: a text with "in stock" and, in capitals, "Sold Out" was
\* classified as out_of_stock.
C24_Witness ==
    /\ classified = OUT_OF_STOCK
    /\ \E i, j \in 1..Len(content) :
            content[i] = "in stock" /\ content[j] = "Sold Out"

(***************************************************************************)
(* Validation of the configuration (models.py, config.py)                  *)
(***************************************************************************)
PollValues == {0, 119, 120, 121, 180}

RadiusValues == {Float(-1), Float(0), Float(1), Float(20), NaN}

\* Comparisons of a float with a number: every comparison with NaN is false.
float_gt(x, n) == ~x.nan /\ x.value > n

float_le(x, n) == ~x.nan /\ x.value <= n

Payloads ==
    { [state |-> "document", poll_seconds |-> p, radius_miles |-> r,
       watchlist |-> w] :
        p \in PollValues, r \in RadiusValues, w \in Watchlists }

\* AppConfig.model_validate: Field(ge=120) rejects an int below 120 and
\* Field(gt=0) rejects a float that compares less than or equal to 0;
\* allow_inf_nan is left at its default, so NaN reaches the comparison.
model_validate(doc) ==
    IF doc.poll_seconds < PollSecondsMin \/ float_le(doc.radius_miles, 0)
    THEN [NoConfig EXCEPT !.state = "rejected"]
    ELSE [doc EXCEPT !.state = "accepted"]

\* self.config.model_copy(update={"watchlist": [item]}): a copy with the
\* field replaced, not validated again.
model_copy(cfg, item) == [cfg EXCEPT !.state = "copy", !.watchlist = <<item>>]

\* load_config: AppConfig.model_validate(payload).
LoadConfig ==
    /\ accepted.state = "none"
    /\ accepted' = model_validate(payload)
    /\ UNCHANGED <<payload, partial, textVars, sessVars, alerts, discovery, tickets,
                   idleVars>>

\* run_forever calls run_once_for_item for an item of the watchlist.
RunOnceForItem(i) ==
    /\ accepted.state = "accepted"
    /\ i \in 1..Len(accepted.watchlist)
    /\ partial' = model_copy(accepted, accepted.watchlist[i])
    /\ UNCHANGED <<payload, accepted, textVars, sessVars, alerts, discovery, tickets,
                   idleVars>>

InitConfig ==
    /\ InitIdle
    /\ InitTextOff
    /\ InitSessOff
    /\ alerts = NoAlerts
    /\ discovery = NoDiscovery
    /\ tickets = NoTickets
    /\ payload \in Payloads
    /\ accepted = NoConfig
    /\ partial = NoConfig

NextConfig ==
    \/ LoadConfig
    \/ \E i \in 1..MaxItems : RunOnceForItem(i)

SpecConfig == InitConfig /\ [][NextConfig]_vars

\* C25 as claimed: every configuration accepted by validation has
\* poll_seconds >= 120 and radius_miles > 0, a document violating either
\* bound is rejected, and the base interval of run_forever and of its
\* per-item copies is never below 120.
C25_AcceptedWithinBounds ==
    /\ accepted.state = "accepted" =>
            /\ accepted.poll_seconds >= 120
            /\ float_gt(accepted.radius_miles, 0)
    /\ (accepted.state # "none"
            /\ ~(payload.poll_seconds >= 120 /\ float_gt(payload.radius_miles, 0)))
         => accepted.state = "rejected"
    /\ partial.state = "copy" => partial.poll_seconds >= 120


(***************************************************************************)
(* A page-scrape adapter on its own (adapters/playwright_base.py)          *)
(***************************************************************************)
\* The attribute of the adapter that holds a sub-resource.
Started(a, resource) == a[resource] # None

\* An __exit__ that closes and stops without testing what was started.
exit_calls_Unguarded(a) == Reverse(SubResources)

\* __exit__: `if self._context: close`, `if self._browser: close`,
\* `if self._playwright: stop`, in that order.
exit_calls(a) == SelectSeq(Reverse(SubResources), LAMBDA r : Started(a, r))

\* __enter__ on an adapter that was not entered: the driver, the browser and
\* the context are started one after the other; res.started of them are
\* started when it returns or raises.
EnterAdapter(res) ==
    /\ teardown.entered = "never"
    /\ res \in EnterResults(scraper.name)
    /\ LET n == IF res.raises THEN res.started ELSE Len(SubResources)
       IN  scraper' = [f \in DOMAIN scraper |->
                IF \E i \in 1..n : SubResources[i] = f THEN "open"
                ELSE scraper[f]]
    /\ teardown' = [teardown EXCEPT
                        !.entered = IF res.raises THEN "failed" ELSE "entered"]
    /\ UNCHANGED <<visit, textVars, confVars, alerts, discovery, tickets, idleVars>>

\* __exit__: the calls are made in order; the call number `fails` raises and
\* ends __exit__, 0 when none raises.
ExitAdapter(fails) ==
    /\ teardown.exits < MaxExits
    /\ LET calls == exit_calls(scraper)
           made == IF fails = 0 THEN calls ELSE SubSeq(calls, 1, fails)
           done == IF fails = 0 THEN calls ELSE SubSeq(calls, 1, fails - 1)
       IN  /\ fails \in 0..Len(calls)
           /\ scraper' = [f \in DOMAIN scraper |->
                    IF \E i \in 1..Len(done) : done[i] = f THEN "closed"
                    ELSE scraper[f]]
           /\ teardown' = [teardown EXCEPT !.exits = @ + 1, !.made = made,
                                            !.raised = fails # 0]
    /\ UNCHANGED <<visit, textVars, confVars, alerts, discovery, tickets, idleVars>>

InitAdapter ==
    /\ InitIdle
    /\ InitTextOff
    /\ InitConfOff
    /\ alerts = NoAlerts
    /\ discovery = NoDiscovery
    /\ tickets = NoTickets
    /\ \E name \in PageScrape, zip_code \in BOOLEAN :
            scraper = NewAdapter(name, zip_code)
    /\ teardown = NoTeardown
    /\ visit = NoVisit

NextAdapter ==
    \/ \E res \in UNION { EnterResults(r) : r \in PageScrape } : EnterAdapter(res)
    \/ \E fails \in 0..Len(SubResources) : ExitAdapter(fails)

SpecAdapter == InitAdapter /\ [][NextAdapter]_vars

\* C26: __exit__ on a page-scrape adapter whose __enter__ never ran closes
\* and stops nothing, raises no error and leaves the adapter as it was built.
C26_ExitNeverEnteredIsNoOp ==
    (teardown.entered = "never" /\ teardown.exits > 0) =>
        /\ teardown.made = <<>>
        /\ ~teardown.raised
        /\ \A i \in 1..Len(SubResources) : ~Started(scraper, SubResources[i])

\* C26 happens: an adapter that was never entered has been exited twice.
C26_Witness ==
    /\ teardown.entered = "never"
    /\ teardown.exits = MaxExits


(***************************************************************************)
(* ProductDiscoveryService.discover (stockcheck/discovery.py)              *)
(***************************************************************************)
\* The retailers of the /discover form, in the order discover_products
\* appends them.
DiscoverRetailers == <<"target", "walmart", "gamestop", "amazon", "pokemoncenter">>

\* The lists discover_products builds: the retailers whose include flag is
\* set, in that order, at least one.
RECURSIVE Included(_, _)
Included(flags, i) ==
    IF i > Len(DiscoverRetailers) THEN <<>>
    ELSE (IF flags[i] THEN <<DiscoverRetailers[i]>> ELSE <<>>)
         \o Included(flags, i + 1)

RequestLists ==
    { Included(flags, 1) : flags \in [1..Len(DiscoverRetailers) -> BOOLEAN] }
        \ {<<>>}

Keywords == {"elite trainer box", "  "}

\* keyword.strip()
strip(keyword) == IF keyword = "  " THEN "" ELSE keyword

LinkUrls == {"u1", "u2"}

\* A ProductCandidate, by the fields _dedupe looks at.
ProductCandidate(retailer, url) == [retailer |-> retailer, url |-> url]

\* What a retailer's _discover_<retailer> may do: return candidates (never
\* none: a search link stands in when nothing was found), raise a
\* requests.RequestException, or raise another exception.
DiscoverOutcomes ==
    { [kind |-> "candidates", urls |-> l] :
        l \in UNION { [1..n -> LinkUrls] : n \in 1..MaxLinks } }
    \cup { [kind |-> k, urls |-> <<>>] : k \in {"request_error", "other_error"} }

\* A discover that catches no exception of a retailer.
absorbs_Nothing(kind) == FALSE

\* except requests.RequestException as exc: errors.append(...)
absorbs(kind) == kind = "request_error"

\* _dedupe: the first row of every (retailer, url), in order.
RECURSIVE dedupe(_)
dedupe(rows) ==
    IF rows = <<>> THEN <<>>
    ELSE LET front == dedupe(SubSeq(rows, 1, Len(rows) - 1))
             row == rows[Len(rows)]
         IN  IF \E i \in 1..Len(front) : front[i] = row THEN front
             ELSE Append(front, row)

\* discover with a keyword that is blank after strip: nothing is searched.
ReturnBlank ==
    /\ discovery.state = "called"
    /\ strip(discovery.keyword) = ""
    /\ discovery' = [discovery EXCEPT !.state = "returned"]
    /\ UNCHANGED <<textVars, confVars, sessVars, alerts, tickets, idleVars>>

\* One iteration of `for retailer in retailers`.
DiscoverRetailer(out) ==
    /\ discovery.state = "called"
    /\ strip(discovery.keyword) # ""
    /\ discovery.idx <= Len(discovery.retailers)
    /\ LET retailer == discovery.retailers[discovery.idx]
           seen == [discovery EXCEPT !.outs = Append(@, out), !.idx = @ + 1]
       IN  discovery' =
             IF out.kind = "candidates"
             THEN [seen EXCEPT !.results = @ \o
                        [i \in 1..Len(out.urls) |->
                            ProductCandidate(retailer, out.urls[i])]]
             ELSE IF absorbs(out.kind)
             THEN [seen EXCEPT !.errors =
                        Append(@, [retailer |-> retailer, exc |-> out.kind])]
             ELSE [seen EXCEPT !.state = "raised"]
    /\ UNCHANGED <<textVars, confVars, sessVars, alerts, tickets, idleVars>>

\* After the loop: DiscoveryResult(candidates=self._dedupe(results), errors).
ReturnResult ==
    /\ discovery.state = "called"
    /\ strip(discovery.keyword) # ""
    /\ discovery.idx > Len(discovery.retailers)
    /\ discovery' = [discovery EXCEPT !.state = "returned",
                                      !.candidates = dedupe(discovery.results)]
    /\ UNCHANGED <<textVars, confVars, sessVars, alerts, tickets, idleVars>>

InitDiscover ==
    /\ InitIdle
    /\ InitTextOff
    /\ InitConfOff
    /\ InitSessOff
    /\ alerts = NoAlerts
    /\ tickets = NoTickets
    /\ \E keyword \in Keywords, retailers \in RequestLists :
            discovery = [NoDiscovery EXCEPT !.state = "called",
                                           !.keyword = keyword,
                                           !.retailers = retailers]

NextDiscover ==
    \/ ReturnBlank
    \/ \E out \in DiscoverOutcomes : DiscoverRetailer(out)
    \/ ReturnResult

SpecDiscover == InitDiscover /\ [][NextDiscover]_vars

(***************************************************************************)
(* TicketSearchService.search (stockcheck/tickets.py)                      *)
(***************************************************************************)
\* The sources in the order search visits them: ticketmaster, seatgeek, then
\* the public_sources loop (of its six sources the first and the last).
TicketSources == <<"ticketmaster", "seatgeek", "stubhub", "gametime">>

IncludeSets == SUBSET { TicketSources[i] : i \in 1..Len(TicketSources) }

\* Texts are sequences of words; " " is white space at an end of a text.
QueryTexts == { <<>>, <<"Kid", "Cudi">>, <<" ", "Kid", "Cudi", " ">> }

\* venue_query: None or "" (both <<>>), a venue, white space.
VenueTexts == { <<>>, <<"Bristow,", "VA">>, <<" ">> }

SectionTexts == { <<>>, <<"Floor">> }

EventIds == { <<>>, <<"E1">> }

\* str.strip()
RECURSIVE strip_text(_)
strip_text(text) ==
    IF text = <<>> THEN <<>>
    ELSE IF Head(text) = " " THEN strip_text(Tail(text))
    ELSE IF text[Len(text)] = " " THEN strip_text(SubSeq(text, 1, Len(text) - 1))
    ELSE text

\* str.lower()
lower_word(word) ==
    CASE word = "Bristow," -> "bristow,"
      [] word = "VA" -> "va"
      [] word = "Floor" -> "floor"
      [] word = "Kid" -> "kid"
      [] word = "Cudi" -> "cudi"
      [] word = "Live" -> "live"
      [] word = "Denver" -> "denver"
      [] word = "E1" -> "e1"
      [] OTHER -> word

lower_text(text) == [i \in 1..Len(text) |-> lower_word(text[i])]

\* " ".join(x for x in parts if x)
RECURSIVE join_words(_)
join_words(parts) ==
    IF parts = <<>> THEN <<>> ELSE Head(parts) \o join_words(Tail(parts))

cleaned_query(t) == strip_text(t.query)

cleaned_event_id(t) == strip_text(t.event_id)

venue_term(t) == lower_text(strip_text(t.venue_query))

section_term(t) == lower_text(strip_text(t.section_query))

\* effective_query = " ".join(x for x in [cleaned_query, venue_term,
\* section_term] if x).strip()
effective_query(t) ==
    join_words(<<cleaned_query(t), venue_term(t), section_term(t)>>)

\* The query argument of every _search_public_provider call:
\* effective_query or cleaned_query.
provider_query(t) ==
    IF effective_query(t) # <<>> THEN effective_query(t) ELSE cleaned_query(t)

event_id_only_mode(t) == cleaned_event_id(t) # <<>> /\ cleaned_query(t) = <<>>

\* re.sub(r"[^a-z0-9]+", " ", ...) on a lowercased word.
norm_word(word) == IF word = "bristow," THEN "bristow" ELSE word

\* len(t) >= 3
long_word(word) == word \notin {"va", "e1"}

WordsOf(text) == { norm_word(lower_word(text[i])) : i \in 1..Len(text) }

\* What a provider search may return for a query: the search link built
\* from the query, or an event extracted from the page.
ProviderResponses == {"search_link", "event_at_venue", "event_elsewhere"}

\* A TicketResult, by the texts the filters look at.
TicketResult(source, response, query) ==
    [source |-> source,
     availability |-> IF response = "search_link" THEN "search_link" ELSE "event",
     venue |-> CASE response = "event_at_venue" -> <<"Live", "Bristow,", "VA">>
                 [] response = "event_elsewhere" -> <<"Live", "Denver">>
                 [] OTHER -> <<>>,
     url |-> IF response = "search_link" THEN <<source>> \o query
             ELSE <<source, "event">>]

\* _matches_venue: every word of the venue term of three letters or more
\* occurs in the row's text; a term without such a word must occur whole.
matches_venue(row, term) ==
    LET blob == WordsOf(row.venue) \cup WordsOf(row.url)
        tokens == { w \in WordsOf(term) : long_word(w) }
    IN  IF WordsOf(term) = {} THEN TRUE
        ELSE IF tokens = {} THEN WordsOf(term) \subseteq blob
        ELSE tokens \subseteq blob

\* _matches_section: section_term in blob.
matches_section(row, term) ==
    { lower_word(term[i]) : i \in 1..Len(term) }
        \subseteq { lower_word(w) : w \in
                        { row.venue[i] : i \in 1..Len(row.venue) }
                        \cup { row.url[i] : i \in 1..Len(row.url) } }

\* _dedupe_results: the first row of every (source, url), in order.
RECURSIVE dedupe_results(_)
dedupe_results(rows) ==
    IF rows = <<>> THEN <<>>
    ELSE LET front == dedupe_results(SubSeq(rows, 1, Len(rows) - 1))
             row == rows[Len(rows)]
         IN  IF \E i \in 1..Len(front) :
                    front[i].source = row.source /\ front[i].url = row.url
             THEN front
             ELSE Append(front, row)

\* The filters at the end of search.
filter_results(t, rows) ==
    LET kept == SelectSeq(rows, LAMBDA r :
                    venue_term(t) # <<>> => matches_venue(r, venue_term(t)))
    IN  SelectSeq(kept, LAMBDA r :
                    section_term(t) # <<>> => matches_section(r, section_term(t)))

\* search without a query and without an event id.
RejectSearch ==
    /\ tickets.state = "called"
    /\ cleaned_query(tickets) = <<>>
    /\ cleaned_event_id(tickets) = <<>>
    /\ tickets' = [tickets EXCEPT !.state = "returned",
                                  !.errors = <<"query is required">>]
    /\ UNCHANGED <<textVars, confVars, sessVars, alerts, discovery, idleVars>>

\* search reaches a source: a source that is not included is passed over;
\* ticketmaster with an event id gets the event's link without a search; the
\* other sources are passed over in event-id-only mode; else the provider is
\* searched with provider_query.
VisitSource(response) ==
    /\ tickets.state = "called"
    /\ cleaned_query(tickets) # <<>> \/ cleaned_event_id(tickets) # <<>>
    /\ tickets.idx <= Len(TicketSources)
    /\ LET source == TicketSources[tickets.idx]
           next == [tickets EXCEPT !.idx = @ + 1]
           query == provider_query(tickets)
       IN  tickets' =
             IF source \notin tickets.include THEN next
             ELSE IF source = "ticketmaster" /\ cleaned_event_id(tickets) # <<>>
             THEN [next EXCEPT !.results = Append(@,
                        [source |-> source, availability |-> "search_link",
                         venue |-> <<>>,
                         url |-> <<source, "event">> \o cleaned_event_id(tickets)])]
             ELSE IF source # "ticketmaster" /\ event_id_only_mode(tickets)
             THEN next
             ELSE [next EXCEPT
                        !.calls = Append(@, [source |-> source, query |-> query]),
                        !.results = Append(@, TicketResult(source, response, query))]
    /\ UNCHANGED <<textVars, confVars, sessVars, alerts, discovery, idleVars>>

\* The end of search: the rows are deduplicated and filtered.
ReturnSearch ==
    /\ tickets.state = "called"
    /\ tickets.idx > Len(TicketSources)
    /\ tickets' = [tickets EXCEPT
            !.state = "returned",
            !.returned = filter_results(tickets, dedupe_results(tickets.results))]
    /\ UNCHANGED <<textVars, confVars, sessVars, alerts, discovery, idleVars>>

InitTickets ==
    /\ InitIdle
    /\ InitTextOff
    /\ InitConfOff
    /\ InitSessOff
    /\ alerts = NoAlerts
    /\ discovery = NoDiscovery
    /\ \E query \in QueryTexts, venue_query \in VenueTexts,
          section_query \in SectionTexts, event_id \in EventIds,
          include \in IncludeSets :
            tickets = [NoTickets EXCEPT !.state = "called", !.query = query,
                                       !.venue_query = venue_query,
                                       !.section_query = section_query,
                                       !.event_id = event_id,
                                       !.include = include]

NextTickets ==
    \/ RejectSearch
    \/ \E response \in ProviderResponses : VisitSource(response)
    \/ ReturnSearch

SpecTickets == InitTickets /\ [][NextTickets]_vars

\* C28: a request error of one retailer's discovery never ends discover:
\* every requested retailer is searched, the candidates of every retailer
\* that returned some, earlier or later in the list, are among the returned
\* candidates, nothing else is, and the errors hold exactly one entry naming
\* each failing retailer and none naming another.
C28_DiscoveryContinues ==
    LET outs == discovery.outs
        rs == discovery.retailers
    IN  /\ discovery.state = "raised" =>
                outs[Len(outs)].kind = "other_error"
        /\ (discovery.state = "returned" /\ strip(discovery.keyword) # "") =>
                /\ Len(outs) = Len(rs)
                /\ \A i \in 1..Len(rs) :
                      /\ outs[i].kind = "candidates" =>
                            \A j \in 1..Len(outs[i].urls) :
                                \E k \in 1..Len(discovery.candidates) :
                                    discovery.candidates[k]
                                        = ProductCandidate(rs[i], outs[i].urls[j])
                      /\ Cardinality({ k \in 1..Len(discovery.errors) :
                                        discovery.errors[k].retailer = rs[i] })
                            = IF outs[i].kind = "request_error" THEN 1 ELSE 0
                /\ \A k \in 1..Len(discovery.candidates) :
                        \E i \in 1..Len(rs) :
                            /\ discovery.candidates[k].retailer = rs[i]
                            /\ \E j \in 1..Len(outs[i].urls) :
                                    outs[i].urls[j] = discovery.candidates[k].url
                /\ \A k \in 1..Len(discovery.errors) :
                        \E i \in 1..Len(rs) : discovery.errors[k].retailer = rs[i]

\* C28 happens: discover returned after a retailer between two others raised
\* a request error and the two others returned candidates.
C28_Witness ==
    /\ discovery.state = "returned"
    /\ \E i \in 2..(Len(discovery.outs) - 1) :
            /\ discovery.outs[i].kind = "request_error"
            /\ discovery.outs[i - 1].kind = "candidates"
            /\ discovery.outs[i + 1].kind = "candidates"
    /\ Len(discovery.errors) = 1

\* C29 as claimed: every provider search issued by search receives exactly
\* the cleaned query, whatever the venue_query; the venue term only filters
\* the results.
C29_ProviderGetsCleanedQuery ==
    /\ \A i \in 1..Len(tickets.calls) :
            tickets.calls[i].query = cleaned_query(tickets)
    /\ tickets.state = "returned" =>
            \A i \in 1..Len(tickets.returned) :
                matches_venue(tickets.returned[i], venue_term(tickets))

(***************************************************************************)
(* Claims about the spacing of run_forever's checks                        *)
(***************************************************************************)
\* The schedule key of the item whose run returned last: the item whose
\* run has just returned, else the rescheduled key that started last.
LastChecked ==
    IF spc = "running" /\ pc = "idle" /\ outcome = "returned"
    THEN ScheduleKey(SchedItem)
    ELSE CHOOSE k \in ScheduleKeys : \A j \in ScheduleKeys : started[j] <= started[k]

\* C33: in continuous mode each single-item run overwrites the status
\* snapshot with the CheckRecords of that one item: when the run of an item
\* has returned, the snapshot is the rows of its records, and at every
\* moment of run_forever every row of the snapshot is of the most recently
\* checked item, whatever the other items of the watchlist recorded.
C33_SnapshotOfLastItemOnly ==
    /\ (spc = "running" /\ pc = "idle" /\ outcome = "returned") =>
            /\ snapshot = write_status(records)
            /\ Len(records) = Len(invoked.checks)
    /\ snapshot.exists =>
            \A n \in 1..Len(snapshot.rows) :
                <<snapshot.rows[n].retailer, snapshot.rows[n].item_key>> = LastChecked

\* C33 happens: at the end of a pass that ran two different items, each at
\* one store, the snapshot has one row, of the second item, while the state
\* store holds a row of the first.
C33_Witness ==
    /\ spc = "scan" /\ widx > Len(config.watchlist)
    /\ Len(config.watchlist) = 2
    /\ ScheduleKey(config.watchlist[1]) # ScheduleKey(config.watchlist[2])
    /\ started[ScheduleKey(config.watchlist[1])] > 0
    /\ started[ScheduleKey(config.watchlist[2])]
            > started[ScheduleKey(config.watchlist[1])]
    /\ \E sid \in StoreIds :
            get_status(db, KeyOf(config.watchlist[1], sid)) # None
    /\ Len(snapshot.rows) = 1
    /\ snapshot.rows[1].label = config.watchlist[2].label

\* C36: run_forever idles at the end of a pass if and only if no item was
\* run in that pass: the step from the end of a pass to the next scan adds
\* the sleep to the clock exactly when no item was rescheduled at the now
\* of the pass, and adds nothing when one was.
C36_IdlesIffNothingRan ==
    [][(spc = "scan" /\ widx > Len(config.watchlist) /\ widx' = 1) =>
            LET ran == \E k \in ScheduleKeys : ranAt[k] = now
            IN  /\ ~ran => (clock' = clock + SleepSeconds /\ now' = clock')
                /\ ran => (clock' = clock /\ now' = clock)]_vars

\* C36 happens: a pass has begun at the moment the two-second run of the
\* pass before it ended, without idling.
C36_Witness ==
    /\ spc = "scan" /\ widx = 1
    /\ now = clock
    /\ \E k \in ScheduleKeys : started[k] > 0 /\ now = started[k] + 2

\* C35: when every single-item run terminates without raising and time
\* advances, run_forever never terminates and the check of every item of
\* the watchlist is started again and again, whatever the other items do.
C35_EveryItemCheckedForever ==
    /\ [](spc # "terminated")
    /\ \A item \in WatchItems :
            []<>((\E i \in 1..Len(config.watchlist) : config.watchlist[i] = item)
                    => (spc = "running" /\ SchedItem = item))

\* C35 happens: in a pass that skipped the first item, rescheduled and not
\* yet due, the check of a different second item has started.
C35_Witness ==
    /\ spc = "running" /\ widx = 2 /\ ~triggered
    /\ ~firstPass.open
    /\ ScheduleKey(config.watchlist[1]) # ScheduleKey(config.watchlist[2])
    /\ schedule[ScheduleKey(config.watchlist[1])] > 0

\* C30: two consecutive checks of the same watched item by run_forever never
\* start less than 0.8 * poll_seconds apart, however long the checks of the
\* other items take: while a check of an item is running, the clock since
\* the start of the item's previous check is at least 0.8 * poll_seconds.
C30_ChecksSpacedByPoll ==
    (spc = "running" /\ started[ScheduleKey(SchedItem)] > 0)
        => 10 * (clock - started[ScheduleKey(SchedItem)])
               >= 8 * config.poll_seconds

(***************************************************************************)
(* An adapter's find_stores_near and check_item_in_store on their own      *)
(* (adapters/playwright_base.py, target.py, gamestop.py, bestbuy.py)       *)
(***************************************************************************)
\* zip_code of an adapter: None, the empty string, a ZIP code.
ZipCodes == {None, "", "08540"}

\* `if self.zip_code`, `self.zip_code or 'unknown'`: None and "" are falsy.
truthy(zip_code) == zip_code \notin {None, ""}

\* URLs of url items: without a query, with a zip parameter of their own,
\* with another parameter.
ItemUrls ==
    { [path |-> "/p/a", query |-> <<>>],
      [path |-> "/p/a", query |-> << <<"zip", "00000">> >>],
      [path |-> "/p/a", query |-> << <<"q", "1">> >>] }

\* The value of a sku item, in the shape of the values of url items.
SkuValue == [path |-> "6521430", query |-> <<>>]

\* The items an adapter may be handed: of its own retailer, of either
\* identifier kind.
VisitItems(name) ==
    { [retailer |-> name, label |-> "item", type |-> "url", value |-> u] :
            u \in ItemUrls }
    \cup {[retailer |-> name, label |-> "item", type |-> "sku", value |-> SkuValue]}

\* _adapter_factories: TargetAdapter(headless=...), GameStopAdapter(
\* headless=...): zip_code keeps its default None.  BestBuyAdapter().
adapter_factory(name) == [name |-> name, zip_code |-> None, context |-> FALSE]

\* The adapters of the service and page-scrape adapters constructed with a
\* zip_code, before and after __enter__.
VisitAdapters ==
    { [adapter_factory(name) EXCEPT !.context = c] :
            name \in Retailers, c \in BOOLEAN }
    \cup { [name |-> name, zip_code |-> z, context |-> c] :
            name \in PageScrape, z \in ZipCodes, c \in BOOLEAN }

\* query.update({name: value}) on the dict of the query's pairs: the value
\* of an existing name is replaced where it stands, a new name is added last.
update_param(query, name, value) ==
    IF \E i \in 1..Len(query) : query[i][1] = name
    THEN [i \in 1..Len(query) |->
            IF query[i][1] = name THEN <<name, value>> ELSE query[i]]
    ELSE Append(query, <<name, value>>)

\* _append_query_params(url, {"zip": zip_code, "zipcode": zip_code}).
append_query_params(url, zip_code) ==
    [url EXCEPT !.query =
        update_param(update_param(@, "zip", zip_code), "zipcode", zip_code)]

\* An adapter that adds the ZIP parameters whatever zip_code is.
nav_url_AlwaysAppends(zip_code, url) == append_query_params(url, zip_code)

\* url = watch_item.identifier.value; if self.zip_code: url =
\* self._append_query_params(...).
nav_url(zip_code, url) ==
    IF truthy(zip_code) THEN append_query_params(url, zip_code) ELSE url

\* f"local-context-{self.zip_code or 'unknown'}".
local_store_id(zip_code) ==
    IF truthy(zip_code) THEN "local-context-08540" ELSE LocalContextStore

\* PlaywrightRetailerAdapter.find_stores_near: one Store built from the
\* arguments and the zip_code, no I/O.
find_stores_near(a, lat, lon, radius_miles) ==
    << [retailer |-> a.name, store_id |-> local_store_id(a.zip_code),
        lat |-> lat, lon |-> lon, radius |-> radius_miles] >>

\* What the page or the product API may do: the request raises, or it
\* answers with a text.
Fetches ==
    { [raises |-> r, text |-> t] :
        r \in BOOLEAN,
        t \in { <<>>, <<"in stock">>, <<"sold out">>, <<"in stock", "sold out">> } }

Effect(op, url) == [op |-> op, url |-> url]

\* The ways a call may raise.
Raises == {"ValueError", "RuntimeError", "RequestError"}

\* A page-scrape adapter that navigates before it tests the identifier.
check_item_with_page_NavigatesFirst(a, item, io) ==
    LET url == nav_url(a.zip_code, item.value)
    IN  IF io.raises
        THEN [effects |-> <<Effect("goto", url)>>, result |-> "RequestError"]
        ELSE IF item.type # "url"
        THEN [effects |-> <<Effect("goto", url)>>, result |-> "ValueError"]
        ELSE [effects |-> <<Effect("goto", url)>>,
              result |-> classify(a.name, io.text)]

\* TargetAdapter._check_item_with_page, GameStopAdapter._check_item_with_page:
\* the identifier test, then page.goto(url) and the classification of the
\* page's text.
check_item_with_page(a, item, io) ==
    IF item.type # "url"
    THEN [effects |-> <<>>, result |-> "ValueError"]
    ELSE LET url == nav_url(a.zip_code, item.value)
         IN  IF io.raises
             THEN [effects |-> <<Effect("goto", url)>>, result |-> "RequestError"]
             ELSE [effects |-> <<Effect("goto", url)>>,
                   result |-> classify(a.name, io.text)]

\* check_item_in_store.  PlaywrightRetailerAdapter: page = self._new_page(),
\* which raises without a context, then _check_item_with_page and, in a
\* finally clause, page.close().  BestBuyAdapter: the identifier test, then
\* _fetch_product_store_payload and the classification of its text.
check_item_in_store(a, item, io) ==
    IF a.name \in PageScrape
    THEN IF ~a.context
         THEN [effects |-> <<>>, result |-> "RuntimeError"]
         ELSE LET r == check_item_with_page(a, item, io)
              IN  [effects |-> <<Effect("new_page", NoUrl)>> \o r.effects
                                \o <<Effect("close_page", NoUrl)>>,
                   result |-> r.result]
    ELSE IF item.type # "sku"
         THEN [effects |-> <<>>, result |-> "ValueError"]
         ELSE IF io.raises
         THEN [effects |-> <<Effect("fetch", item.value)>>,
               result |-> "RequestError"]
         ELSE [effects |-> <<Effect("fetch", item.value)>>,
               result |-> classify(a.name, io.text)]

\* Coordinates and radii find_stores_near is called with.
Coordinates == {0, 40}
Radii == {1, 20}

\* find_stores_near of a page-scrape adapter is called.
FindStoresNear(lat, lon, radius_miles) ==
    /\ visit.adapter.name \in PageScrape
    /\ ~visit.looked
    /\ visit' = [visit EXCEPT
                    !.looked = TRUE,
                    !.stores = find_stores_near(visit.adapter, lat, lon,
                                                radius_miles)]
    /\ UNCHANGED <<scraper, teardown, textVars, confVars, alerts, discovery,
                   tickets, idleVars>>

\* check_item_in_store is called for the item.
CheckItemInStore(io) ==
    /\ ~visit.checked
    /\ LET r == check_item_in_store(visit.adapter, visit.item, io)
       IN  visit' = [visit EXCEPT !.checked = TRUE, !.effects = r.effects,
                                  !.result = r.result]
    /\ UNCHANGED <<scraper, teardown, textVars, confVars, alerts, discovery,
                   tickets, idleVars>>

InitVisit ==
    /\ InitIdle
    /\ InitTextOff
    /\ InitConfOff
    /\ alerts = NoAlerts
    /\ discovery = NoDiscovery
    /\ tickets = NoTickets
    /\ scraper = NewAdapter(None, FALSE)
    /\ teardown = NoTeardown
    /\ \E a \in VisitAdapters :
       \E item \in VisitItems(a.name) :
            visit = [NoVisit EXCEPT !.adapter = a, !.item = item]

NextVisit ==
    \/ \E lat, lon \in Coordinates, radius_miles \in Radii :
            FindStoresNear(lat, lon, radius_miles)
    \/ \E io \in Fetches : CheckItemInStore(io)

SpecVisit == InitVisit /\ [][NextVisit]_vars

\* An effect that navigates a page or fetches from the network.
Navigates(effect) == effect.op \in {"goto", "fetch"}

\* The identifier kind of the item is not the one the adapter requires.
Incompatible(a, item) ==
    IF a.name \in PageScrape THEN item.type # "url" ELSE item.type # "sku"

\* C37: check_item_in_store raises, and returns no status, whenever the
\* item's identifier kind is incompatible with the adapter (a url-only
\* adapter given a sku, the Best Buy adapter given a url), and no page
\* navigation or network fetch has been made for the item.
C37_MismatchRaisesBeforeFetch ==
    (visit.checked /\ Incompatible(visit.adapter, visit.item)) =>
        /\ visit.result \in Raises
        /\ visit.result \notin StockStatus
        /\ \A n \in 1..Len(visit.effects) : ~Navigates(visit.effects[n])

\* C37 happens: an entered url-only adapter was given a sku item, opened a
\* page, raised ValueError and closed the page.
C37_Witness ==
    /\ visit.checked
    /\ visit.adapter.name \in PageScrape /\ visit.adapter.context
    /\ visit.item.type = "sku"
    /\ visit.result = "ValueError"
    /\ Len(visit.effects) = 2

\* C38: a page-scrape adapter without a ZIP code does not fail for the lack
\* of it: find_stores_near returns exactly one synthetic store, with store
\* id local-context-unknown, for any coordinates and radius, and
\* check_item_in_store navigates once, to the item's URL as it is, with no
\* ZIP parameter added, and ends as the page lets it.
C38_NoZipDegradesOnly ==
    (visit.adapter.name \in PageScrape /\ ~truthy(visit.adapter.zip_code)) =>
        /\ visit.looked =>
                /\ Len(visit.stores) = 1
                /\ visit.stores[1].store_id = LocalContextStore
                /\ visit.stores[1].retailer = visit.adapter.name
        /\ (visit.checked /\ visit.adapter.context /\ visit.item.type = "url") =>
                /\ Len(visit.effects) = 3
                /\ visit.effects[2] = Effect("goto", visit.item.value)
                /\ \A n \in {1, 3} : ~Navigates(visit.effects[n])
                /\ visit.result \in StockStatus \cup {"RequestError"}

\* C38 happens: an adapter the service built, without a ZIP code, returned
\* its store and a status for an item whose URL has a zip parameter of its
\* own, which it navigated to unchanged.
C38_Witness ==
    /\ visit.adapter = [adapter_factory("target") EXCEPT !.context = TRUE]
    /\ visit.looked /\ visit.checked
    /\ visit.stores[1].store_id = LocalContextStore
    /\ visit.item.type = "url"
    /\ visit.item.value.query = << <<"zip", "00000">> >>
    /\ visit.effects[2].url = visit.item.value
    /\ visit.result = IN_STOCK

====
